---------------------------- MODULE Spec2Model ----------------------------
(***************************************************************************)
(* GNSS ephemeris and clock interpolation engine of s2e-core               *)
(* (gnss_satellites.cpp): constellation index, per-satellite time series,  *)
(* sliding interpolation windows of the true and the estimate track, and   *)
(* the facade accessors and observables of GnssSatellites.                 *)
(*                                                                         *)
(* Time is counted in ticks of 5e-5 s, so that the 1e-4 s numerical guard  *)
(* of the code is 2 ticks and a query time can fall strictly inside it.    *)
(* Strings are sequences of one-character strings.                         *)
(***************************************************************************)
EXTENDS Integers, Sequences, FiniteSets, TLC

(***************************************************************************)
(* Program constants                                                       *)
(***************************************************************************)
gps_sat_num_ == 32
glonass_sat_num_ == 26
galileo_sat_num_ == 36
beidou_sat_num_ == 16
qzss_sat_num_ == 7

gps_index_bias_ == -1
glonass_index_bias_ == gps_index_bias_ + gps_sat_num_
galileo_index_bias_ == glonass_index_bias_ + glonass_sat_num_
beidou_index_bias_ == galileo_index_bias_ + galileo_sat_num_
qzss_index_bias_ == beidou_index_bias_ + beidou_sat_num_

all_sat_num_ == gps_sat_num_ + glonass_sat_num_ + galileo_sat_num_ + beidou_sat_num_ + qzss_sat_num_

INT32_MAX == 2147483647

\* The 1e-4 s numerical guard, in ticks.
Tol == 2
\* One second, in ticks.
OneSecond == 5000 * Tol

Abs(x) == IF x < 0 THEN -x ELSE x

(***************************************************************************)
(* std::stoi and std::to_string on the identifiers the engine handles      *)
(***************************************************************************)
Digits == <<"0", "1", "2", "3", "4", "5", "6", "7", "8", "9">>

IsDigit(c) == \E d \in 1..10 : Digits[d] = c

DigitValue(c) == (CHOOSE d \in 1..10 : Digits[d] = c) - 1

\* Length of the longest prefix of s made of decimal digits.
RECURSIVE DigitPrefixLen(_)
DigitPrefixLen(s) ==
  IF s = <<>> \/ ~IsDigit(Head(s)) THEN 0 ELSE 1 + DigitPrefixLen(Tail(s))

RECURSIVE DigitsToInt(_, _)
DigitsToInt(s, acc) ==
  IF s = <<>> THEN acc ELSE DigitsToInt(Tail(s), 10 * acc + DigitValue(Head(s)))

\* std::stoi: the decimal value of the leading digits; the characters after
\* them are ignored.  It is applied to strings that start with a digit.
stoi(s) == DigitsToInt(SubSeq(s, 1, DigitPrefixLen(s)), 0)

\* s.substr(pos) with a zero-based pos.
substr(s, pos) == SubSeq(s, pos + 1, Len(s))

RECURSIVE NatToString(_)
NatToString(n) ==
  IF n < 10 THEN <<Digits[n + 1]>> ELSE NatToString(n \div 10) \o <<Digits[(n % 10) + 1]>>

\* std::to_string(int)
to_string(n) == IF n < 0 THEN <<"-">> \o NatToString(-n) ELSE NatToString(n)

(***************************************************************************)
(* Constellation index                                                     *)
(***************************************************************************)
\* The offset selected by the constellation tag; INT32_MAX for the default
\* arm of the switch, which returns without parsing the number.
\* Mutant: the Galileo arm adds the GLONASS offset.
TagBias_mut(tag) ==
  CASE tag = "G" -> gps_index_bias_
    [] tag = "R" -> glonass_index_bias_
    [] tag = "E" -> glonass_index_bias_
    [] tag = "C" -> beidou_index_bias_
    [] tag = "J" -> qzss_index_bias_
    [] OTHER -> INT32_MAX

TagBias(tag) ==
  CASE tag = "G" -> gps_index_bias_
    [] tag = "R" -> glonass_index_bias_
    [] tag = "E" -> galileo_index_bias_
    [] tag = "C" -> beidou_index_bias_
    [] tag = "J" -> qzss_index_bias_
    [] OTHER -> INT32_MAX

\* Mutant: the default arms return the last index instead of INT32_MAX.
GetIndexFromId_mut(sat_num) ==
  IF Head(sat_num) = "P"
    THEN IF TagBias(sat_num[2]) = INT32_MAX
           THEN all_sat_num_ - 1
           ELSE stoi(substr(sat_num, 2)) + TagBias(sat_num[2])
    ELSE IF TagBias(Head(sat_num)) = INT32_MAX
           THEN all_sat_num_ - 1
           ELSE stoi(substr(sat_num, 1)) + TagBias(Head(sat_num))

GetIndexFromId(sat_num) ==
  IF Head(sat_num) = "P"
    THEN IF TagBias(sat_num[2]) = INT32_MAX
           THEN INT32_MAX
           ELSE stoi(substr(sat_num, 2)) + TagBias(sat_num[2])
    ELSE IF TagBias(Head(sat_num)) = INT32_MAX
           THEN INT32_MAX
           ELSE stoi(substr(sat_num, 1)) + TagBias(Head(sat_num))

\* The tag and the offset of the constellation that owns an index.
IndexOwner(index) ==
  IF index < glonass_index_bias_ THEN [tag |-> "G", bias |-> gps_index_bias_]
  ELSE IF index < galileo_index_bias_ THEN [tag |-> "R", bias |-> glonass_index_bias_]
  ELSE IF index < beidou_index_bias_ THEN [tag |-> "E", bias |-> galileo_index_bias_]
  ELSE IF index < qzss_index_bias_ THEN [tag |-> "C", bias |-> beidou_index_bias_]
  ELSE [tag |-> "J", bias |-> qzss_index_bias_]

\* Mutant: the number is taken relative to the GPS offset in every arm.
GetIdFromIndex_mut(index) ==
  LET o == IndexOwner(index)
      n == index - gps_index_bias_
  IN <<o.tag>> \o (IF n < 10 THEN <<"0">> ELSE <<>>) \o to_string(n)

GetIdFromIndex(index) ==
  LET o == IndexOwner(index)
      n == index - o.bias
  IN <<o.tag>> \o (IF n < 10 THEN <<"0">> ELSE <<>>) \o to_string(n)

GetNumberOfSatellites == all_sat_num_


(***************************************************************************)
(* Numeric values                                                          *)
(*                                                                         *)
(* Stored samples are integers (position in m, clock offset in 1e-6 m).    *)
(* A value handed out by the engine is either such a number, wrapped as    *)
(* [num |-> n], or the result of an interpolation or of an observable      *)
(* formula that has no integer value; the latter is kept as the term that  *)
(* the code evaluates, so that two results are equal when the code         *)
(* evaluates the same expression on the same operands.                     *)
(***************************************************************************)
Num(n) == [num |-> n]
Zero == Num(0)
NumVector(v) == <<Num(v[1]), Num(v[2]), Num(v[3])>>
\* libra::Vector<3>(0.0)
ZeroVector == <<Zero, Zero, Zero>>
\* The result of an expression that divides by zero (inf or NaN).
NotANumber == [nan |-> TRUE]

Sats == 0..(all_sat_num_ - 1)

\* vector.at(i): the element, or std::out_of_range.
InRange(v, i) == i \in DOMAIN v

\* A vector of all_sat_num_ elements, indexed from 0.
SatVector(x) == [s \in Sats |-> x]

Min(a, b) == IF a < b THEN a ELSE b
Max(a, b) == IF a > b THEN a ELSE b

(***************************************************************************)
(* UltraRapidMode                                                          *)
(***************************************************************************)
kNotUse == 0
kObserve1 == 1
kPredict1 == 5
kPredict4 == 8

(***************************************************************************)
(* Product files                                                           *)
(*                                                                         *)
(* A page is one file: the three header fields the parser reads and the    *)
(* body lines from the first epoch marker line on.  An epoch line carries  *)
(* its time (mktime of the calendar fields) and the cosine and sine of the *)
(* sidereal angle that gstime returns for it; a satellite line carries the *)
(* identifier, three coordinates in km and the clock field in microsecond. *)
(***************************************************************************)
EpochLine(t, c, s) == [mark |-> "*", t |-> t, cos_ |-> c, sin_ |-> s]
SatLine(id, x, y, z, clk) == [mark |-> "P", id |-> id, x |-> x, y |-> y, z |-> z, clk |-> clk]

\* const double nan99 = 999999.999999, as the largest integer below it:
\* for an integer field v, std::abs(v - nan99) < 1.0 holds exactly for
\* v = 999999 and v = 1000000.
nan99 == 999999
\* Mutant: no field is taken for the sentinel.
NearNan99_mut(v) == v - nan99 \in {}

NearNan99(v) == v - nan99 \in {0, 1}

speed_of_light_m_s == 299792458

(***************************************************************************)
(* GnssSatellitePosition::Initialize                                       *)
(***************************************************************************)
\* The range of body lines read from a page, relative to its first epoch
\* marker line.
\* Mutant: the epoch lines are not counted in the length of a segment.
LineRange_mut(num_of_sat, num_of_time_stamps, ur_flag) ==
  IF ur_flag = kNotUse
    THEN [start_line |-> 0, end_line |-> (num_of_sat + 1) * num_of_time_stamps]
    ELSE LET offset == ur_flag - kObserve1
             seg == (num_of_sat * num_of_time_stamps) \div 8
         IN [start_line |-> seg * offset, end_line |-> seg * (offset + 1)]

LineRange(num_of_sat, num_of_time_stamps, ur_flag) ==
  IF ur_flag = kNotUse
    THEN [start_line |-> 0, end_line |-> (num_of_sat + 1) * num_of_time_stamps]
    ELSE LET offset == ur_flag - kObserve1
             seg == ((num_of_sat + 1) * num_of_time_stamps) \div 8
         IN [start_line |-> seg * offset, end_line |-> seg * (offset + 1)]

\* "Set data": a sample whose time is within threshold of the last stored
\* one overwrites it, any other sample is appended.
Overwrites(times, unix_time, threshold) ==
  times # <<>> /\ Abs(unix_time - times[Len(times)]) < threshold

\* Mutant: every sample is appended.
MergeSample_mut(series, overwrite, value) == Append(series, value)

MergeSample(series, overwrite, value) ==
  IF overwrite THEN [series EXCEPT ![Len(series)] = value] ELSE Append(series, value)

\* ECEF -> ECI with the epoch's rotation.
ToEci(p, c, s) == <<c * p[1] - s * p[2], s * p[1] + c * p[2], p[3]>>

\* One body line of a position page.  st is the parser state; misread is
\* the time the calendar conversion yields when the line at an epoch
\* position is not an epoch line.
PositionReadLine(st, page, i, start_line, misread) ==
  LET line == i + start_line IN
  IF st.exc # "none" THEN st
  ELSE IF line + 1 > Len(page.lines) THEN [st EXCEPT !.exc = "out_of_range"]
  ELSE
    LET l == page.lines[line + 1] IN
    IF i % (page.num_of_sat + 1) = 0
      THEN LET e == IF l.mark = "*" THEN l ELSE EpochLine(misread, 1, 0)
           IN [st EXCEPT !.unix_time = e.t, !.cos_ = e.cos_, !.sin_ = e.sin_,
                         !.start_unix_time = Min(@, e.t),
                         !.end_unix_time = Max(@, e.t)]
      ELSE IF l.mark = "*"
        \* the marker is no constellation tag and the calendar fields are
        \* no sentinel: the store is indexed with INT32_MAX
        THEN [st EXCEPT !.exc = "out_of_range"]
      ELSE
        LET gnss_satellite_id == GetIndexFromId(l.id)
            available_flag == ~(NearNan99(l.x) \/ NearNan99(l.y) \/ NearNan99(l.z))
            ecef_position_m == <<l.x * 1000, l.y * 1000, l.z * 1000>>
            eci_position == ToEci(ecef_position_m, st.cos_, st.sin_)
        IN IF ~available_flag THEN st
           ELSE IF gnss_satellite_id \notin Sats THEN [st EXCEPT !.exc = "out_of_range"]
           ELSE
             LET overwrite == Overwrites(st.unix_time_list[gnss_satellite_id], st.unix_time, OneSecond)
             IN [st EXCEPT
                  !.unix_time_list[gnss_satellite_id] = MergeSample(@, overwrite, st.unix_time),
                  !.ecef[gnss_satellite_id] = MergeSample(@, overwrite, ecef_position_m),
                  !.eci[gnss_satellite_id] = MergeSample(@, overwrite, eci_position)]

RECURSIVE PositionReadLines(_, _, _, _, _, _)
PositionReadLines(st, page, i, start_line, end_line, misread) ==
  \* the loop over the lines i .. end_line - start_line - 1, read in order:
  \* the first half of them, then the second half; an exception ends it
  IF st.exc # "none" \/ i >= end_line - start_line THEN st
  ELSE IF i + 1 = end_line - start_line THEN PositionReadLine(st, page, i, start_line, misread)
  ELSE PositionReadLines(
         PositionReadLines(st, page, i, start_line, start_line + ((i + end_line - start_line) \div 2), misread),
         page, (i + end_line - start_line) \div 2, start_line, end_line, misread)

\* The parser state at the first body line of a page: the header's interval
\* is stored and the locals of the page loop are initialized.
PositionPageStart(st, page) ==
  [st EXCEPT !.time_interval_ = page.time_interval, !.unix_time = 0, !.cos_ = 0, !.sin_ = 0]

PositionReadPage(st, page, ur_flag, misread) ==
  LET r == LineRange(page.num_of_sat, page.num_of_time_stamps, ur_flag)
  IN PositionReadLines(PositionPageStart(st, page), page, 0, r.start_line, r.end_line, misread)

RECURSIVE PositionReadPages(_, _, _, _, _)
PositionReadPages(st, file, page, ur_flag, misread) ==
  IF page > Len(file) \/ st.exc # "none" THEN st
  ELSE PositionReadPages(PositionReadPage(st, file[page], ur_flag, misread),
                         file, page + 1, ur_flag, misread)

\* "for using min and max, set the sup & inf before": start_unix_time = 1e16
NoStartTime == INT32_MAX

\* The tracker after Initialize; exc names the exception that ended it and
\* unix_time_period is the returned pair.
PositionInitialized(self, interpolation_number, st) ==
  [exc |-> st.exc,
   unix_time_period |-> <<st.start_unix_time, st.end_unix_time>>,
   self |-> [self EXCEPT !.interpolation_number_ = interpolation_number,
                         !.time_interval_ = st.time_interval_,
                         !.unix_time_list = st.unix_time_list,
                         !.time_series_position_ecef_m_ = st.ecef,
                         !.time_series_position_eci_m_ = st.eci]]

\* The parser state before the first page: the stores are resized and the
\* period is set to its sup and inf.
PositionParserStart(self) ==
  [exc |-> "none",
   time_interval_ |-> self.time_interval_,
   unix_time_list |-> SatVector(<<>>),
   ecef |-> SatVector(<<>>),
   eci |-> SatVector(<<>>),
   unix_time |-> 0, cos_ |-> 0, sin_ |-> 0,
   start_unix_time |-> NoStartTime, end_unix_time |-> 0]

GnssSatellitePosition_Initialize(self, file, interpolation_number, ur_flag, misread) ==
  PositionInitialized(self, interpolation_number,
                      PositionReadPages(PositionParserStart(self), file, 1, ur_flag, misread))

(***************************************************************************)
(* GnssSatelliteClock::Initialize                                          *)
(***************************************************************************)
\* One body line of an orbit-format (.sp3) clock page.
ClockSp3ReadLine(st, page, i, start_line, misread) ==
  LET line == i + start_line IN
  IF st.exc # "none" THEN st
  ELSE IF line + 1 > Len(page.lines) THEN [st EXCEPT !.exc = "out_of_range"]
  ELSE
    LET l == page.lines[line + 1] IN
    IF i % (page.num_of_sat + 1) = 0
      THEN [st EXCEPT !.unix_time = IF l.mark = "*" THEN l.t ELSE misread]
      ELSE IF l.mark = "*"
        \* the fifth field of an epoch line is its hour, never the sentinel
        THEN [st EXCEPT !.exc = "out_of_range"]
      ELSE
        LET gnss_satellite_id == GetIndexFromId(l.id)
            clock == l.clk * speed_of_light_m_s
        IN IF NearNan99(l.clk) THEN st
           ELSE IF gnss_satellite_id \notin Sats THEN [st EXCEPT !.exc = "out_of_range"]
           ELSE
             LET overwrite == Overwrites(st.unix_time_list[gnss_satellite_id], st.unix_time, OneSecond)
             IN [st EXCEPT
                  !.unix_time_list[gnss_satellite_id] = MergeSample(@, overwrite, st.unix_time),
                  !.clock[gnss_satellite_id] = MergeSample(@, overwrite, clock)]

RECURSIVE ClockSp3ReadLines(_, _, _, _, _, _)
ClockSp3ReadLines(st, page, i, start_line, end_line, misread) ==
  \* the loop over the lines i .. end_line - start_line - 1, read in order:
  \* the first half of them, then the second half; an exception ends it
  IF st.exc # "none" \/ i >= end_line - start_line THEN st
  ELSE IF i + 1 = end_line - start_line THEN ClockSp3ReadLine(st, page, i, start_line, misread)
  ELSE ClockSp3ReadLines(
         ClockSp3ReadLines(st, page, i, start_line, start_line + ((i + end_line - start_line) \div 2), misread),
         page, (i + end_line - start_line) \div 2, start_line, end_line, misread)

ClockSp3PageStart(st, page) ==
  [st EXCEPT !.time_interval_ = page.time_interval, !.unix_time = 0]

ClockSp3ReadPage(st, page, ur_flag, misread) ==
  LET r == LineRange(page.num_of_sat, page.num_of_time_stamps, ur_flag)
  IN ClockSp3ReadLines(ClockSp3PageStart(st, page), page, 0, r.start_line, r.end_line, misread)

\* A bias record of the prefix-tagged clock format ("AS " lines): identifier,
\* time, and bias in microsecond; every other line of the format is Other.
AsLine(id, t, bias) == [mark |-> "AS", id |-> id, t |-> t, bias |-> bias]
OtherLine == [mark |-> "other"]

\* time_interval_ = 1e9: larger than every time of the model.
NoInterval == INT32_MAX

\* const double interval = 6 * 60 * 60
SixHours == 6 * 60 * 60 * OneSecond

\* One line of a prefix-tagged clock page; st.stop is set by the break.
Clk30sReadLine(st, l, ur_flag) ==
  IF st.exc # "none" \/ st.stop \/ l.mark # "AS" THEN st
  ELSE
    LET unix_time == l.t
        start_unix_time == IF st.start_unix_time < 0
                             THEN unix_time + (ur_flag - kObserve1) * SixHours
                             ELSE st.start_unix_time
        end_unix_time == IF st.start_unix_time < 0
                           THEN start_unix_time + SixHours
                           ELSE st.end_unix_time
        st1 == [st EXCEPT !.start_unix_time = start_unix_time, !.end_unix_time = end_unix_time]
        gnss_satellite_id == GetIndexFromId(l.id)
        clock_bias == l.bias * speed_of_light_m_s
    IN IF start_unix_time - unix_time > Tol THEN st1
       ELSE IF end_unix_time - unix_time < Tol THEN [st1 EXCEPT !.stop = TRUE]
       ELSE IF gnss_satellite_id \notin Sats THEN [st1 EXCEPT !.exc = "out_of_range"]
       ELSE
         LET times == st.unix_time_list[gnss_satellite_id]
             overwrite == Overwrites(times, unix_time, Tol)
         IN [st1 EXCEPT
              !.time_interval_ = IF ~overwrite /\ times # <<>>
                                   THEN Min(@, unix_time - times[Len(times)]) ELSE @,
              !.unix_time_list[gnss_satellite_id] = MergeSample(@, overwrite, unix_time),
              !.clock[gnss_satellite_id] = MergeSample(@, overwrite, clock_bias)]

RECURSIVE Clk30sReadLines(_, _, _, _)
Clk30sReadLines(st, lines, line, ur_flag) ==
  IF line > Len(lines) THEN st
  ELSE Clk30sReadLines(Clk30sReadLine(st, lines[line], ur_flag), lines, line + 1, ur_flag)

\* Mutant: the range ends at the last position timestamp.
Clk30sPageStart_mut(st, ur_flag, unix_time_period) ==
  IF ur_flag = kNotUse
    THEN [st EXCEPT !.start_unix_time = unix_time_period[1],
                    !.end_unix_time = unix_time_period[2],
                    !.stop = FALSE]
    ELSE [st EXCEPT !.start_unix_time = -1, !.end_unix_time = 0, !.stop = FALSE]

\* The period of the records kept from a page.
Clk30sPageStart(st, ur_flag, unix_time_period) ==
  IF ur_flag = kNotUse
    THEN [st EXCEPT !.start_unix_time = unix_time_period[1],
                    !.end_unix_time = unix_time_period[2] + 30 * OneSecond,
                    !.stop = FALSE]
    ELSE [st EXCEPT !.start_unix_time = -1, !.end_unix_time = 0, !.stop = FALSE]

Clk30sReadPage(st, page, ur_flag, unix_time_period) ==
  Clk30sReadLines(Clk30sPageStart(st, ur_flag, unix_time_period), page.lines, 1, ur_flag)

RECURSIVE ClockReadPages(_, _, _, _, _, _, _)
ClockReadPages(st, file, page, file_extension, ur_flag, unix_time_period, misread) ==
  IF page > Len(file) \/ st.exc # "none" THEN st
  ELSE ClockReadPages(IF file_extension = ".sp3"
                        THEN ClockSp3ReadPage(st, file[page], ur_flag, misread)
                        ELSE Clk30sReadPage(st, file[page], ur_flag, unix_time_period),
                      file, page + 1, file_extension, ur_flag, unix_time_period, misread)

\* The tracker after Initialize; exc names what ended it.
ClockInitialized(self, interpolation_number, st) ==
  [exc |-> st.exc,
   self |-> [self EXCEPT !.interpolation_number_ = interpolation_number,
                         !.time_interval_ = st.time_interval_,
                         !.unix_time_list = st.unix_time_list,
                         !.time_series_clock_offset_m_ = st.clock]]

\* The parser state before the first page; the prefix-tagged format exits
\* on a predicted segment and starts from the interval 1e9.
\* Mutant: a predicted segment of the prefix-tagged format is read.
ClockParserStart_mut(self, file_extension, ur_flag) ==
  [exc |-> "none",
   time_interval_ |-> IF file_extension = ".sp3" THEN self.time_interval_ ELSE NoInterval,
   unix_time_list |-> SatVector(<<>>),
   clock |-> SatVector(<<>>),
   unix_time |-> 0, start_unix_time |-> 0, end_unix_time |-> 0, stop |-> FALSE]

ClockParserStart(self, file_extension, ur_flag) ==
  LET predict == file_extension # ".sp3" /\ kPredict1 <= ur_flag /\ ur_flag <= kPredict4
  IN [exc |-> IF predict THEN "exit" ELSE "none",
      time_interval_ |-> IF file_extension = ".sp3" THEN self.time_interval_ ELSE NoInterval,
      unix_time_list |-> SatVector(<<>>),
      clock |-> SatVector(<<>>),
      unix_time |-> 0, start_unix_time |-> 0, end_unix_time |-> 0, stop |-> FALSE]

GnssSatelliteClock_Initialize(self, file, file_extension, interpolation_number, ur_flag, unix_time_period, misread) ==
  ClockInitialized(self, interpolation_number,
                   ClockReadPages(ClockParserStart(self, file_extension, ur_flag), file, 1,
                                  file_extension, ur_flag, unix_time_period, misread))

(***************************************************************************)
(* Interpolation kernels                                                   *)
(*                                                                         *)
(* Both kernels are sums of values weighted by products of ratios          *)
(* f(time - t_j) / f(t_i - t_j), f the identity (Lagrange) or              *)
(* sin(w x / 2) (trigonometric).  f(0) = 0 and, for the time spans of the  *)
(* model (far below the period 86400 / 1.03 s), f(x) # 0 for x # 0.  The   *)
(* results that are determined by this are computed: a zero denominator    *)
(* gives no number, at a node all weights are 0 but the node's own, which  *)
(* is 1, and a sum of zeros is zero.  Every other result is the term       *)
(* kernel(time_vector, values, time).                                      *)
(***************************************************************************)
HasZeroDenominator(time_vector) ==
  \E i, j \in DOMAIN time_vector : i # j /\ time_vector[i] - time_vector[j] = 0

Interpolation(kernel, time_vector, values, time) ==
  IF time_vector = <<>> THEN Zero
  ELSE IF HasZeroDenominator(time_vector) THEN NotANumber
  ELSE IF \E k \in DOMAIN time_vector : time - time_vector[k] = 0
    THEN Num(values[CHOOSE k \in DOMAIN time_vector : time - time_vector[k] = 0])
  ELSE IF \A k \in DOMAIN values : values[k] = 0 THEN Zero
  ELSE [kernel |-> kernel, time_vector |-> time_vector, values |-> values, time |-> time]

Component(values, j) == [k \in DOMAIN values |-> values[k][j]]

\* template <size_t N> TrigonometricInterpolation, N = 3
TrigonometricInterpolation(time_vector, values, time) ==
  [j \in 1..3 |-> Interpolation("trigonometric", time_vector, Component(values, j), time)]

\* the scalar LagrangeInterpolation
LagrangeInterpolation(time_vector, values, time) ==
  Interpolation("lagrange", time_vector, values, time)

(***************************************************************************)
(* Interpolation window: the steps shared by the position and the clock    *)
(* tracker (the two classes repeat them line by line)                      *)
(***************************************************************************)
\* std::lower_bound: the number of halving steps is fixed by the length, so
\* the search is defined on any sequence, sorted or not.  Returns the
\* zero-based index (the length when the search reaches the end).
RECURSIVE LowerBoundFrom(_, _, _, _)
LowerBoundFrom(a, first, len, val) ==
  IF len <= 0 THEN first
  ELSE LET half == len \div 2
           middle == first + half
       IN IF a[middle + 1] < val
            THEN LowerBoundFrom(a, middle + 1, len - half - 1, val)
            ELSE LowerBoundFrom(a, first, half, val)

\* Mutant: a search that reaches the end returns the last sample.
lower_bound_mut(a, val) == Min(LowerBoundFrom(a, 0, Len(a), val), Len(a) - 1)

lower_bound(a, val) == LowerBoundFrom(a, 0, Len(a), val)

\* "for both even and odd: 2n+1 -> [-n, n] 2n -> [-n, n)": the zero-based
\* series indices of the window around index, clipped to the series.
WindowFirst(index, interpolation_number) == Max(0, index - (interpolation_number \div 2))
\* Mutant: a window clipped at the start of the series is extended at its end.
WindowLast_mut(index, interpolation_number, size) ==
  Min(size - 1, Max(index + ((interpolation_number + 1) \div 2) - 1, interpolation_number - 1))

WindowLast(index, interpolation_number, size) ==
  Min(size - 1, index + ((interpolation_number + 1) \div 2) - 1)

\* The samples pushed to a window by the loop over now_index.
WindowSlice(series, index, interpolation_number) ==
  SubSeq(series, WindowFirst(index, interpolation_number) + 1,
                 WindowLast(index, interpolation_number, Len(series)) + 1)

\* SetUp: the index chosen as nearest to start_unix_time, from the result of
\* lower_bound (smaller than the size of the series).
\* Mutant: an odd window is centred on the sample before, whatever the distances.
CenterIndex_mut(times, index, interpolation_number, start_unix_time) ==
  IF interpolation_number % 2 = 1 /\ index # 0 THEN index - 1 ELSE index

\* Mutant: an odd window is centred on the first sample at or after the time.
CenterIndex_ceil(times, index, interpolation_number, start_unix_time) == index

\* Mutant: on an exact tie an odd window is centred on the sample before.
CenterIndex_tie(times, index, interpolation_number, start_unix_time) ==
  IF interpolation_number % 2 = 1 /\ index # 0
       /\ Abs(start_unix_time - times[index]) <= Abs(start_unix_time - times[index + 1])
    THEN index - 1
    ELSE index

CenterIndex(times, index, interpolation_number, start_unix_time) ==
  IF interpolation_number % 2 = 1 /\ index # 0
       /\ Abs(start_unix_time - times[index]) < Abs(start_unix_time - times[index + 1])
    THEN index - 1
    ELSE index

\* Update: whether the window moves to the next sample.
\* Mutant: the window moves on an exact tie too.
Advances_tie(times, index, current_unix_time) ==
  /\ index + 1 < Len(times)
  /\ Abs(current_unix_time - times[index + 2]) <= Abs(current_unix_time - times[index + 1])

Advances(times, index, current_unix_time) ==
  /\ index + 1 < Len(times)
  /\ Abs(current_unix_time - times[index + 2]) < Abs(current_unix_time - times[index + 1])

\* Mutant: the index is searched anew at every Update.
AdvancedIndex_mut(times, index, current_unix_time) ==
  Min(lower_bound(times, current_unix_time), Len(times) - 1)

\* Mutant: the index never moves.
AdvancedIndex_stay(times, index, current_unix_time) == index

\* Update: nearest_index_ after the step, "++index" at most once.
AdvancedIndex(times, index, current_unix_time) ==
  IF Advances(times, index, current_unix_time) THEN index + 1 ELSE index

\* The allowed number of missing samples in a window.
PositionSlack == 3
ClockSlack == 0

\* Mutant: one more missing sample is allowed.
TooLong_mut(time_period_list, time_interval, interpolation_number, slack) ==
  LET time_period_length == time_period_list[Len(time_period_list)] - time_period_list[1]
      factor == interpolation_number + slack
  IN IF time_interval = NoInterval /\ factor > 0 THEN FALSE
     ELSE time_period_length > time_interval * factor + Tol

\* time_period_length > time_interval_ * (interpolation_number_ - 1 + slack) + 1e-4
TooLong(time_period_list, time_interval, interpolation_number, slack) ==
  LET time_period_length == time_period_list[Len(time_period_list)] - time_period_list[1]
      factor == interpolation_number - 1 + slack
  IN IF time_interval = NoInterval /\ factor > 0 THEN FALSE
     ELSE time_period_length > time_interval * factor + Tol

\* std::abs(time - nearest) > time_interval_
\* Mutant: a time exactly one interval away from the nearest sample is too far.
TooFar_strict(time, nearest_unix_time, time_interval) ==
  Abs(time - nearest_unix_time) >= time_interval

TooFar(time, nearest_unix_time, time_interval) ==
  Abs(time - nearest_unix_time) > time_interval

\* std::abs(time - nearest) < 1e-4: the stored sample is returned directly
IsExactMatch(time, nearest_unix_time) == Abs(time - nearest_unix_time) < Tol

\* The three validity tests that follow the window's construction.
WindowValid(time_period_list, time, nearest_unix_time, time_interval, interpolation_number, slack) ==
  /\ ~TooFar(time, nearest_unix_time, time_interval)
  /\ Len(time_period_list) = interpolation_number
  /\ ~TooLong(time_period_list, time_interval, interpolation_number, slack)

(***************************************************************************)
(* GnssSatellitePosition                                                   *)
(*                                                                         *)
(* A tracker holds interpolation_number_, time_interval_, the series       *)
(* (unix_time_list and the value series, one sequence per satellite) and   *)
(* sat_: for every satellite the elements of the vectors that SetUp sizes  *)
(* (validate_, nearest_index_, the window and the current value).  sat_ is *)
(* the empty vector until SetUp.                                           *)
(***************************************************************************)
PositionNew ==
  [interpolation_number_ |-> 0, time_interval_ |-> 0,
   unix_time_list |-> <<>>,
   time_series_position_ecef_m_ |-> <<>>,
   time_series_position_eci_m_ |-> <<>>,
   sat_ |-> <<>>]

\* The elements SetUp starts from: assign(all_sat_num_, ...) and resize.
PositionFresh ==
  [validate_ |-> FALSE, nearest_index_ |-> 0,
   time_period_list_ |-> <<>>, ecef_ |-> <<>>, eci_ |-> <<>>,
   position_ecef_m_ |-> ZeroVector, position_eci_m_ |-> ZeroVector]

\* The evaluated value at time: the stored sample or the interpolation.
PositionValue(series, index, time_period_list, window, time, nearest_unix_time) ==
  IF IsExactMatch(time, nearest_unix_time)
    THEN NumVector(series[index + 1])
    ELSE TrigonometricInterpolation(time_period_list, window, time)

\* The body of SetUp's loop for one satellite.
PositionSetUpSat(self, gnss_satellite_id, start_unix_time) ==
  LET times == self.unix_time_list[gnss_satellite_id]
      ecef_series == self.time_series_position_ecef_m_[gnss_satellite_id]
      eci_series == self.time_series_position_eci_m_[gnss_satellite_id]
      n == self.interpolation_number_
  IN IF times = <<>> THEN PositionFresh
     ELSE
       LET found == lower_bound(times, start_unix_time) IN
       IF found = Len(times) THEN [PositionFresh EXCEPT !.nearest_index_ = found]
       ELSE
         LET index == CenterIndex(times, found, n, start_unix_time)
             nearest_unixtime == times[index + 1]
         IN IF TooFar(start_unix_time, nearest_unixtime, self.time_interval_)
              THEN [PositionFresh EXCEPT !.nearest_index_ = index]
              ELSE
                LET time_period_list == WindowSlice(times, index, n)
                    ecef == WindowSlice(ecef_series, index, n)
                    eci == WindowSlice(eci_series, index, n)
                    valid == WindowValid(time_period_list, start_unix_time, nearest_unixtime,
                                         self.time_interval_, n, PositionSlack)
                IN [validate_ |-> valid, nearest_index_ |-> index,
                    time_period_list_ |-> time_period_list, ecef_ |-> ecef, eci_ |-> eci,
                    position_ecef_m_ |->
                      IF valid THEN PositionValue(ecef_series, index, time_period_list, ecef,
                                                  start_unix_time, nearest_unixtime)
                               ELSE ZeroVector,
                    position_eci_m_ |->
                      IF valid THEN PositionValue(eci_series, index, time_period_list, eci,
                                                  start_unix_time, nearest_unixtime)
                               ELSE ZeroVector]

GnssSatellitePosition_SetUp(self, start_unix_time) ==
  [self EXCEPT !.sat_ = [gnss_satellite_id \in Sats |->
                           PositionSetUpSat(self, gnss_satellite_id, start_unix_time)]]

\* The body of Update's loop for one satellite; w is the satellite's
\* element of sat_.
PositionUpdateSat(self, gnss_satellite_id, w, current_unix_time) ==
  LET times == self.unix_time_list[gnss_satellite_id]
      ecef_series == self.time_series_position_ecef_m_[gnss_satellite_id]
      eci_series == self.time_series_position_eci_m_[gnss_satellite_id]
      n == self.interpolation_number_
  IN IF times = <<>> \/ w.nearest_index_ = Len(times) THEN [w EXCEPT !.validate_ = FALSE]
     ELSE
       LET advance == Advances(times, w.nearest_index_, current_unix_time)
           index == AdvancedIndex(times, w.nearest_index_, current_unix_time)
           time_period_list == IF advance THEN WindowSlice(times, index, n) ELSE w.time_period_list_
           ecef == IF advance THEN WindowSlice(ecef_series, index, n) ELSE w.ecef_
           eci == IF advance THEN WindowSlice(eci_series, index, n) ELSE w.eci_
           nearest_unix_time == times[index + 1]
           valid == WindowValid(time_period_list, current_unix_time, nearest_unix_time,
                                self.time_interval_, n, PositionSlack)
       IN [validate_ |-> valid, nearest_index_ |-> index,
           time_period_list_ |-> time_period_list, ecef_ |-> ecef, eci_ |-> eci,
           position_ecef_m_ |->
             IF valid THEN PositionValue(ecef_series, index, time_period_list, ecef,
                                         current_unix_time, nearest_unix_time)
                      ELSE w.position_ecef_m_,
           position_eci_m_ |->
             IF valid THEN PositionValue(eci_series, index, time_period_list, eci,
                                         current_unix_time, nearest_unix_time)
                      ELSE w.position_eci_m_]

\* Mutant: a satellite past the end of its series is updated from its last
\* sample.
GnssSatellitePosition_Update_mut(self, current_unix_time) ==
  [self EXCEPT !.sat_ = [gnss_satellite_id \in Sats |->
     IF self.unix_time_list[gnss_satellite_id] # <<>>
          /\ @[gnss_satellite_id].nearest_index_ = Len(self.unix_time_list[gnss_satellite_id])
       THEN PositionUpdateSat(self, gnss_satellite_id,
                              [@[gnss_satellite_id] EXCEPT !.nearest_index_ =
                                 Len(self.unix_time_list[gnss_satellite_id]) - 1],
                              current_unix_time)
       ELSE PositionUpdateSat(self, gnss_satellite_id, @[gnss_satellite_id],
                              current_unix_time)]]

GnssSatellitePosition_Update(self, current_unix_time) ==
  [self EXCEPT !.sat_ = [gnss_satellite_id \in Sats |->
                           PositionUpdateSat(self, gnss_satellite_id, @[gnss_satellite_id],
                                             current_unix_time)]]

(***************************************************************************)
(* GnssSatelliteClock                                                      *)
(***************************************************************************)
ClockNew ==
  [interpolation_number_ |-> 0, time_interval_ |-> 0,
   unix_time_list |-> <<>>,
   time_series_clock_offset_m_ |-> <<>>,
   sat_ |-> <<>>]

ClockFresh ==
  [validate_ |-> FALSE, nearest_index_ |-> 0,
   time_period_list_ |-> <<>>, clock_bias_ |-> <<>>,
   clock_offset_m_ |-> Zero]

ClockValue(series, index, time_period_list, window, time, nearest_unix_time) ==
  IF IsExactMatch(time, nearest_unix_time)
    THEN Num(series[index + 1])
    ELSE LagrangeInterpolation(time_period_list, window, time)

ClockSetUpSat(self, gnss_satellite_id, start_unix_time) ==
  LET times == self.unix_time_list[gnss_satellite_id]
      series == self.time_series_clock_offset_m_[gnss_satellite_id]
      n == self.interpolation_number_
  IN IF times = <<>> THEN ClockFresh
     ELSE
       LET found == lower_bound(times, start_unix_time) IN
       IF found = Len(times) THEN [ClockFresh EXCEPT !.nearest_index_ = found]
       ELSE
         LET index == CenterIndex(times, found, n, start_unix_time)
             nearest_unixtime == times[index + 1]
         IN IF TooFar(start_unix_time, nearest_unixtime, self.time_interval_)
              THEN [ClockFresh EXCEPT !.nearest_index_ = index]
              ELSE
                LET time_period_list == WindowSlice(times, index, n)
                    clock_bias == WindowSlice(series, index, n)
                    valid == WindowValid(time_period_list, start_unix_time, nearest_unixtime,
                                         self.time_interval_, n, ClockSlack)
                IN [validate_ |-> valid, nearest_index_ |-> index,
                    time_period_list_ |-> time_period_list, clock_bias_ |-> clock_bias,
                    clock_offset_m_ |->
                      IF valid THEN ClockValue(series, index, time_period_list, clock_bias,
                                               start_unix_time, nearest_unixtime)
                               ELSE Zero]

GnssSatelliteClock_SetUp(self, start_unix_time) ==
  [self EXCEPT !.sat_ = [gnss_satellite_id \in Sats |->
                           ClockSetUpSat(self, gnss_satellite_id, start_unix_time)]]

ClockUpdateSat(self, gnss_satellite_id, w, current_unix_time) ==
  LET times == self.unix_time_list[gnss_satellite_id]
      series == self.time_series_clock_offset_m_[gnss_satellite_id]
      n == self.interpolation_number_
  IN IF times = <<>> \/ w.nearest_index_ = Len(times) THEN [w EXCEPT !.validate_ = FALSE]
     ELSE
       LET advance == Advances(times, w.nearest_index_, current_unix_time)
           index == AdvancedIndex(times, w.nearest_index_, current_unix_time)
           time_period_list == IF advance THEN WindowSlice(times, index, n) ELSE w.time_period_list_
           clock_bias == IF advance THEN WindowSlice(series, index, n) ELSE w.clock_bias_
           nearest_unix_time == times[index + 1]
           valid == WindowValid(time_period_list, current_unix_time, nearest_unix_time,
                                self.time_interval_, n, ClockSlack)
       IN [validate_ |-> valid, nearest_index_ |-> index,
           time_period_list_ |-> time_period_list, clock_bias_ |-> clock_bias,
           clock_offset_m_ |->
             IF valid THEN ClockValue(series, index, time_period_list, clock_bias,
                                      current_unix_time, nearest_unix_time)
                      ELSE w.clock_offset_m_]

GnssSatelliteClock_Update(self, current_unix_time) ==
  [self EXCEPT !.sat_ = [gnss_satellite_id \in Sats |->
                           ClockUpdateSat(self, gnss_satellite_id, @[gnss_satellite_id],
                                          current_unix_time)]]

(***************************************************************************)
(* Results of the const accessors: a value, or the exception that          *)
(* vector::at raises.                                                      *)
(***************************************************************************)
Return(v) == [exc |-> "none", val |-> v]
Throw(e) == [exc |-> e]
Returns(r, v) == r.exc = "none" /\ r.val = v

\* validate_.at(i) and the like on the vectors SetUp sizes.
At(sat, i, field) == IF InRange(sat, i) THEN Return(sat[i][field]) ELSE Throw("out_of_range")

\* Mutant: a || b.
AndAlso_mut(a, b) ==
  IF a.exc # "none" THEN a
  ELSE IF a.val THEN Return(TRUE)
  ELSE b

\* a && b of two accessor calls, b evaluated only when a is true.
AndAlso(a, b) ==
  IF a.exc # "none" THEN a
  ELSE IF ~a.val THEN Return(FALSE)
  ELSE b

(***************************************************************************)
(* GnssSatelliteBase and the tracker accessors                             *)
(***************************************************************************)
GnssSatelliteBase_GetWhetherValid(self, gnss_satellite_id) ==
  IF gnss_satellite_id >= all_sat_num_ THEN Return(FALSE)
  ELSE At(self.sat_, gnss_satellite_id, "validate_")

GetPosition_ecef_m(self, gnss_satellite_id) ==
  IF gnss_satellite_id >= all_sat_num_ THEN Return(ZeroVector)
  ELSE At(self.sat_, gnss_satellite_id, "position_ecef_m_")

GetPosition_eci_m(self, gnss_satellite_id) ==
  IF gnss_satellite_id >= all_sat_num_ THEN Return(ZeroVector)
  ELSE At(self.sat_, gnss_satellite_id, "position_eci_m_")

GetSatClock(self, gnss_satellite_id) ==
  IF gnss_satellite_id >= all_sat_num_ THEN Return(Zero)
  ELSE At(self.sat_, gnss_satellite_id, "clock_offset_m_")

(***************************************************************************)
(* GnssSatelliteInformation: one track (position_ and clock_)              *)
(***************************************************************************)
InformationNew == [position_ |-> PositionNew, clock_ |-> ClockNew]

\* The track after position_.Initialize (p) and clock_.Initialize (c), or
\* the exception of the first of them that raised.
InformationInitialized(self, p, c) ==
  IF p.exc # "none" THEN [exc |-> p.exc, self |-> self]
  ELSE IF c.exc # "none" THEN [exc |-> c.exc, self |-> self]
  ELSE [exc |-> "none", self |-> [position_ |-> p.self, clock_ |-> c.self]]

\* clock_.Initialize is given the period that position_.Initialize returned.
ClockAfterPosition(self, p, clock_file, clock_file_extension, clock_interpolation_number, clock_ur_flag, misread) ==
  InformationInitialized(self, p,
                         GnssSatelliteClock_Initialize(self.clock_, clock_file,
                                                       clock_file_extension,
                                                       clock_interpolation_number,
                                                       clock_ur_flag, p.unix_time_period,
                                                       misread))

GnssSatelliteInformation_Initialize(self, position_file, position_interpolation_number, position_ur_flag, clock_file, clock_file_extension, clock_interpolation_number, clock_ur_flag, misread) ==
  ClockAfterPosition(self,
                     GnssSatellitePosition_Initialize(self.position_, position_file,
                                                      position_interpolation_number,
                                                      position_ur_flag, misread),
                     clock_file, clock_file_extension, clock_interpolation_number,
                     clock_ur_flag, misread)

GnssSatelliteInformation_SetUp(self, start_unix_time) ==
  [position_ |-> GnssSatellitePosition_SetUp(self.position_, start_unix_time),
   clock_ |-> GnssSatelliteClock_SetUp(self.clock_, start_unix_time)]

GnssSatelliteInformation_Update(self, current_unix_time) ==
  [position_ |-> GnssSatellitePosition_Update(self.position_, current_unix_time),
   clock_ |-> GnssSatelliteClock_Update(self.clock_, current_unix_time)]

GnssSatelliteInformation_GetWhetherValid(self, gnss_satellite_id) ==
  AndAlso(GnssSatelliteBase_GetWhetherValid(self.position_, gnss_satellite_id),
          GnssSatelliteBase_GetWhetherValid(self.clock_, gnss_satellite_id))

GnssSatelliteInformation_GetSatellitePositionEcef(self, gnss_satellite_id) ==
  GetPosition_ecef_m(self.position_, gnss_satellite_id)

GnssSatelliteInformation_GetSatellitePositionEci(self, gnss_satellite_id) ==
  GetPosition_eci_m(self.position_, gnss_satellite_id)

GnssSatelliteInformation_GetSatelliteClock(self, gnss_satellite_id) ==
  GetSatClock(self.clock_, gnss_satellite_id)

(***************************************************************************)
(* GnssSatellites: the facade                                              *)
(***************************************************************************)
\* is_calc_enabled_ : the calculation flag given to the constructor
\* true_info_       : the true track
\* estimate_info_   : the estimate track
\* start_unix_time_ : the time SetUp was called with
\* phase            : "constructed", "initialized", "running" or "terminated"
\* now              : the time of the last SetUp or Update of the tracks
\* converted        : the last call of GetIndexFromId or GetIdFromIndex
\* ingest           : a tracker's Initialize in progress, line by line
\* reader           : InitGnssSatellites in progress, file by file
\* observed         : the last call of a query accessor and what it returned
VARIABLES is_calc_enabled_, true_info_, estimate_info_, start_unix_time_, phase, now, converted, ingest, reader, observed

vars == <<is_calc_enabled_, true_info_, estimate_info_, start_unix_time_, phase, now, converted, ingest, reader, observed>>

\* No Initialize of a tracker, no file read and no accessor call is in progress.
NoIngest == [status |-> "none"]
NoReader == [status |-> "none"]
NoCall == [op |-> "none"]

GetWhetherValid(gnss_satellite_id) ==
  IF gnss_satellite_id >= GetNumberOfSatellites THEN Return(FALSE)
  ELSE AndAlso(GnssSatelliteInformation_GetWhetherValid(true_info_, gnss_satellite_id),
               GnssSatelliteInformation_GetWhetherValid(estimate_info_, gnss_satellite_id))

\* Mutant: the guard tests the range of the identifier only.
Guard_mut(gnss_satellite_id) == Return(gnss_satellite_id >= GetNumberOfSatellites)

\* "gnss_satellite_id is wrong or not valid": the guard of every accessor
\* below.  Its result is the exception when GetWhetherValid raises one.
Guard(gnss_satellite_id) ==
  IF gnss_satellite_id >= GetNumberOfSatellites THEN Return(TRUE)
  ELSE LET v == GetWhetherValid(gnss_satellite_id)
       IN IF v.exc # "none" THEN v ELSE Return(~v.val)

Guarded(gnss_satellite_id, degenerate, result) ==
  LET g == Guard(gnss_satellite_id)
  IN IF g.exc # "none" THEN g
     ELSE IF g.val THEN Return(degenerate)
     ELSE result

GetSatellitePositionEcef(gnss_satellite_id) ==
  Guarded(gnss_satellite_id, ZeroVector,
          GnssSatelliteInformation_GetSatellitePositionEcef(estimate_info_, gnss_satellite_id))

GetSatellitePositionEci(gnss_satellite_id) ==
  Guarded(gnss_satellite_id, ZeroVector,
          GnssSatelliteInformation_GetSatellitePositionEci(estimate_info_, gnss_satellite_id))

\* Mutant: the clock is read from the true track.
GetSatelliteClock_mut(gnss_satellite_id) ==
  Guarded(gnss_satellite_id, Zero,
          GnssSatelliteInformation_GetSatelliteClock(true_info_, gnss_satellite_id))

GetSatelliteClock(gnss_satellite_id) ==
  Guarded(gnss_satellite_id, Zero,
          GnssSatelliteInformation_GetSatelliteClock(estimate_info_, gnss_satellite_id))

(***************************************************************************)
(* Observables.  Receiver positions are given in m on one coordinate axis, *)
(* where the Euclidean norm is the absolute value of the coordinate.       *)
(***************************************************************************)
earth_equatorial_radius_m == 6378137

Norm(v) == Abs(v[1]) + Abs(v[2]) + Abs(v[3])

kEcef == "kEcef"
kEci == "kEci"

\* Mutant: the position is read from the estimate track.
TruePosition_mut(gnss_satellite_id, flag) ==
  IF flag = kEcef
    THEN GnssSatelliteInformation_GetSatellitePositionEcef(estimate_info_, gnss_satellite_id).val
    ELSE GnssSatelliteInformation_GetSatellitePositionEci(estimate_info_, gnss_satellite_id).val

TruePosition(gnss_satellite_id, flag) ==
  IF flag = kEcef
    THEN GnssSatelliteInformation_GetSatellitePositionEcef(true_info_, gnss_satellite_id).val
    ELSE GnssSatelliteInformation_GetSatellitePositionEci(true_info_, gnss_satellite_id).val

\* "there is no Ionosphere above 1000km": altitude >= 1000.0, altitude in km
AboveIonosphere(rec_position) ==
  Norm(rec_position) - earth_equatorial_radius_m >= 1000 * 1000

\* A ratio of two naturals in lowest terms.
RECURSIVE GCD(_, _)
GCD(a, b) == IF b = 0 THEN a ELSE GCD(b, a % b)

Ratio(a, b) == [n |-> a \div GCD(a, b), d |-> b \div GCD(a, b)]

\* "const double default_frequency = 1500.0;  //[MHz]"
default_frequency == 1500

\* Mutant: the delay is inversely proportional to the frequency.
FrequencyFactor_mut(frequency) == Ratio(default_frequency, frequency)

\* pow(default_frequency / frequency, 2.0)
FrequencyFactor(frequency) == Ratio(default_frequency * default_frequency, frequency * frequency)

\* The delay is the product of slant, the delay at the default frequency
\* (default_delay * (1000.0 - altitude) / 1000.0 / cos(angle_rad), a term in
\* the altitude and the two positions), and the ratio frequency_factor.
AddIonosphericDelay(gnss_satellite_id, rec_position, frequency, flag) ==
  Guarded(gnss_satellite_id, Zero,
          IF AboveIonosphere(rec_position) THEN Return(Zero)
          ELSE Return([term |-> "ionospheric_delay",
                       slant |-> [altitude_m |-> Norm(rec_position) - earth_equatorial_radius_m,
                                  rec_position |-> rec_position,
                                  gnss_position |-> TruePosition(gnss_satellite_id, flag)],
                       frequency_factor |-> FrequencyFactor(frequency)]))

\* sqrt of the squared distance, plus the clock terms, before the
\* ionospheric delay is applied.
GeometricRange(gnss_satellite_id, rec_position, rec_clock, flag) ==
  [term |-> "range",
   rec_position |-> rec_position,
   gnss_position |-> TruePosition(gnss_satellite_id, flag),
   rec_clock |-> rec_clock,
   sat_clock |-> GnssSatelliteInformation_GetSatelliteClock(true_info_, gnss_satellite_id).val]

PseudoRange(gnss_satellite_id, rec_position, rec_clock, frequency, flag) ==
  Guarded(gnss_satellite_id, Zero,
          Return([term |-> "pseudorange",
                  range |-> GeometricRange(gnss_satellite_id, rec_position, rec_clock, flag),
                  plus |-> AddIonosphericDelay(gnss_satellite_id, rec_position, frequency, flag).val]))

GetPseudoRangeECEF(gnss_satellite_id, rec_position, rec_clock, frequency) ==
  PseudoRange(gnss_satellite_id, rec_position, rec_clock, frequency, kEcef)

GetPseudoRangeECI(gnss_satellite_id, rec_position, rec_clock, frequency) ==
  PseudoRange(gnss_satellite_id, rec_position, rec_clock, frequency, kEci)

\* The pair {cycle, bias}: cycle = res / lambda, bias = floor(cycle),
\* cycle -= bias.
CarrierPhase(gnss_satellite_id, rec_position, rec_clock, frequency, flag) ==
  Guarded(gnss_satellite_id, <<Zero, Zero>>,
          LET res == [term |-> "carrier_range",
                      range |-> GeometricRange(gnss_satellite_id, rec_position, rec_clock, flag),
                      minus |-> AddIonosphericDelay(gnss_satellite_id, rec_position, frequency, flag).val,
                      frequency |-> frequency]
          IN Return(<<[term |-> "fraction", cycle |-> res], [term |-> "floor", cycle |-> res]>>))

GetCarrierPhaseECEF(gnss_satellite_id, rec_position, rec_clock, frequency) ==
  CarrierPhase(gnss_satellite_id, rec_position, rec_clock, frequency, kEcef)

GetCarrierPhaseECI(gnss_satellite_id, rec_position, rec_clock, frequency) ==
  CarrierPhase(gnss_satellite_id, rec_position, rec_clock, frequency, kEci)

(***************************************************************************)
(* Inputs: product files, configurations and times                         *)
(***************************************************************************)
\* Number of epochs of a product.
MaxEpochs == 7

\* The sampling interval written in the header of the orbit products.
SampleInterval == 300 * OneSecond

G01 == <<"P", "G", "0", "1">>
R02 == <<"P", "R", "0", "2">>
J07 == <<"P", "J", "0", "7">>
FileSats == <<G01, R02, J07>>

\* The sidereal rotation of epoch k, in quarter turns.
EpochCos(k) == CASE k % 4 = 0 -> 1 [] k % 4 = 2 -> -1 [] OTHER -> 0
EpochSin(k) == CASE k % 4 = 1 -> 1 [] k % 4 = 3 -> -1 [] OTHER -> 0

\* The record of satellite i at epoch k, error the product's error in the first
\* coordinate and in the clock; missing records carry the sentinel in the first
\* coordinate and in the clock field.
Record(i, k, missing, error) ==
  IF <<i, k>> \in missing
    THEN SatLine(FileSats[i], nan99, 0, 0, nan99)
    ELSE SatLine(FileSats[i], k + 1 + error, 2 * i, 20 + i, (k % 3) + i + error)

EpochBlock(k, missing, error) ==
  <<EpochLine(k * SampleInterval, EpochCos(k), EpochSin(k))>>
    \o [i \in 1..Len(FileSats) |-> Record(i, k, missing, error)]

RECURSIVE EpochBlocks(_, _, _, _)
EpochBlocks(first, last, missing, error) ==
  IF first > last THEN <<>>
  ELSE IF first = last THEN EpochBlock(first, missing, error)
  ELSE EpochBlocks(first, (first + last) \div 2, missing, error)
         \o EpochBlocks(((first + last) \div 2) + 1, last, missing, error)

\* The page with epochs first..last.
Page(first, last, missing, error) ==
  [num_of_time_stamps |-> last - first + 1,
   time_interval |-> SampleInterval,
   num_of_sat |-> Len(FileSats),
   lines |-> EpochBlocks(first, last, missing, error)]

\* Product A: two pages, no error; J07 has data in the first two epochs only.
ProductA ==
  LET missing == {<<3, k>> : k \in 2..(MaxEpochs - 1)}
  IN <<Page(0, 2, missing, 0), Page(3, MaxEpochs - 1, missing, 0)>>

\* Product B: one page, error 1; G01 misses epochs 2 and 3, R02 misses epochs 1 to 4.
ProductB ==
  LET missing == {<<1, 2>>, <<1, 3>>} \cup {<<2, k>> : k \in 1..4}
  IN <<Page(0, MaxEpochs - 1, missing, 1)>>

\* The arguments of GnssSatellites::Initialize.
Configurations ==
  { [true_position_file |-> ProductA, true_position_interpolation_number |-> 3,
     true_position_ur_flag |-> kNotUse,
     true_clock_file |-> ProductA, true_clock_file_extension |-> ".sp3",
     true_clock_interpolation_number |-> 2, true_clock_ur_flag |-> kNotUse,
     estimate_position_file |-> ProductB, estimate_position_interpolation_number |-> 4,
     estimate_position_ur_flag |-> kNotUse,
     estimate_clock_file |-> ProductB, estimate_clock_file_extension |-> ".sp3",
     estimate_clock_interpolation_number |-> 3, estimate_clock_ur_flag |-> kNotUse],
    [true_position_file |-> ProductB, true_position_interpolation_number |-> 2,
     true_position_ur_flag |-> kNotUse,
     true_clock_file |-> ProductB, true_clock_file_extension |-> ".sp3",
     true_clock_interpolation_number |-> 3, true_clock_ur_flag |-> kNotUse,
     estimate_position_file |-> ProductA, estimate_position_interpolation_number |-> 5,
     estimate_position_ur_flag |-> kNotUse,
     estimate_clock_file |-> ProductA, estimate_clock_file_extension |-> ".sp3",
     estimate_clock_interpolation_number |-> 1, estimate_clock_ur_flag |-> kNotUse] }

\* Simulation start times and elapsed times.
StartTimes ==
  {0, SampleInterval, 2 * SampleInterval + 1,
   3 * SampleInterval + (SampleInterval \div 2), MaxEpochs * SampleInterval}

ElapsedTimes ==
  {0, 1, Tol, SampleInterval \div 2, (SampleInterval \div 2) + 1, SampleInterval,
   2 * SampleInterval, 5 * SampleInterval}

(***************************************************************************)
(* The engine as a state machine                                           *)
(***************************************************************************)
\* GnssSatellites::GnssSatellites(is_calc_enabled)
Init ==
  /\ is_calc_enabled_ \in BOOLEAN
  /\ true_info_ = InformationNew
  /\ estimate_info_ = InformationNew
  /\ start_unix_time_ = 0
  /\ phase = "constructed"
  /\ now = 0
  /\ converted = [op |-> "none"]
  /\ ingest = NoIngest
  /\ reader = NoReader
  /\ observed = NoCall

\* GnssSatellites::Initialize with the arguments c on the tracks true_info
\* and estimate_info: the two tracks after it, or the exception that ended it.
TracksInitialized(t, e) ==
  IF t.exc # "none" THEN [exc |-> t.exc]
  ELSE IF e.exc # "none" THEN [exc |-> e.exc]
  ELSE [exc |-> "none", true_info_ |-> t.self, estimate_info_ |-> e.self]

GnssSatellites_Initialize(true_info, estimate_info, c) ==
  TracksInitialized(
    GnssSatelliteInformation_Initialize(true_info,
      c.true_position_file, c.true_position_interpolation_number,
      c.true_position_ur_flag, c.true_clock_file, c.true_clock_file_extension,
      c.true_clock_interpolation_number, c.true_clock_ur_flag, 0),
    GnssSatelliteInformation_Initialize(estimate_info,
      c.estimate_position_file, c.estimate_position_interpolation_number,
      c.estimate_position_ur_flag, c.estimate_clock_file, c.estimate_clock_file_extension,
      c.estimate_clock_interpolation_number, c.estimate_clock_ur_flag, 0))

\* InitGnssSatellites calls GnssSatellites::Initialize when the calculation
\* is enabled; an exception or exit ends the process.
Initialize(c) ==
  /\ phase = "constructed"
  /\ is_calc_enabled_
  /\ \E r \in {GnssSatellites_Initialize(true_info_, estimate_info_, c)} :
       IF r.exc # "none"
         THEN /\ phase' = "terminated"
              /\ UNCHANGED <<true_info_, estimate_info_>>
         ELSE /\ phase' = "initialized"
              /\ true_info_' = r.true_info_
              /\ estimate_info_' = r.estimate_info_
  /\ UNCHANGED <<is_calc_enabled_, start_unix_time_, now, converted, ingest, reader, observed>>

\* GnssSatellites::SetUp(simulation_time), unix_time the start time
SetUp(unix_time) ==
  /\ phase \in {"constructed", "initialized"}
  /\ IF ~is_calc_enabled_
       THEN UNCHANGED vars
       ELSE /\ phase = "initialized"
            /\ true_info_' = GnssSatelliteInformation_SetUp(true_info_, unix_time)
            /\ estimate_info_' = GnssSatelliteInformation_SetUp(estimate_info_, unix_time)
            /\ start_unix_time_' = unix_time
            /\ phase' = "running"
            /\ now' = unix_time
            /\ UNCHANGED <<is_calc_enabled_, converted, ingest, reader, observed>>

\* GnssSatellites::Update(simulation_time), elapsed_sec the elapsed time
Update(elapsed_sec) ==
  /\ phase \in {"constructed", "running"}
  /\ IF ~is_calc_enabled_
       THEN UNCHANGED vars
       ELSE /\ phase = "running"
            /\ true_info_' = GnssSatelliteInformation_Update(true_info_, elapsed_sec + start_unix_time_)
            /\ estimate_info_' = GnssSatelliteInformation_Update(estimate_info_, elapsed_sec + start_unix_time_)
            /\ now' = elapsed_sec + start_unix_time_
            /\ UNCHANGED <<is_calc_enabled_, start_unix_time_, phase, converted, ingest, reader, observed>>

Next ==
  \/ \E c \in Configurations : Initialize(c)
  \/ \E unix_time \in StartTimes : SetUp(unix_time)
  \/ \E elapsed_sec \in ElapsedTimes : Update(elapsed_sec)

Spec == Init /\ [][Next]_vars

(***************************************************************************)
(* The constellation index on its own: the conversions applied to          *)
(* identifiers and indices, in an engine that is constructed or has been   *)
(* initialized and set up.                                                 *)
(***************************************************************************)
TwoDigits(n) == <<Digits[(n \div 10) + 1], Digits[(n % 10) + 1]>>

Constellations == {"G", "R", "E", "C", "J"}
IdTags == Constellations \cup {"S", "I", "L"}

\* tag and two-digit number, with and without the record prefix
IndexIds ==
  {prefix \o <<tag>> \o TwoDigits(n) : prefix \in {<<>>, <<"P">>}, tag \in IdTags, n \in 0..99}

IndexInputs == (-1)..(all_sat_num_ + 3)

\* One conversion is observed per behaviour: converted keeps the call.

CallGetIndexFromId(sat_num) ==
  /\ converted.op = "none"
  /\ converted' = [op |-> "GetIndexFromId", sat_num |-> sat_num, index |-> GetIndexFromId(sat_num)]
  /\ UNCHANGED <<is_calc_enabled_, true_info_, estimate_info_, start_unix_time_, phase, now, ingest, reader, observed>>

CallGetIdFromIndex(index) ==
  /\ converted.op = "none"
  /\ converted' = [op |-> "GetIdFromIndex", index |-> index, sat_num |-> GetIdFromIndex(index)]
  /\ UNCHANGED <<is_calc_enabled_, true_info_, estimate_info_, start_unix_time_, phase, now, ingest, reader, observed>>

\* The engine after construction, or after Initialize and SetUp.
InitIndex ==
  /\ is_calc_enabled_ = TRUE
  /\ converted = [op |-> "none"]
  /\ ingest = NoIngest
  /\ reader = NoReader
  /\ observed = NoCall
  /\ \/ /\ true_info_ = InformationNew
        /\ estimate_info_ = InformationNew
        /\ start_unix_time_ = 0
        /\ phase = "constructed"
        /\ now = 0
     \/ \E unix_time \in {SampleInterval}, c \in Configurations :
          \E r \in {GnssSatellites_Initialize(InformationNew, InformationNew, c)} :
             /\ r.exc = "none"
             /\ true_info_ = GnssSatelliteInformation_SetUp(r.true_info_, unix_time)
             /\ estimate_info_ = GnssSatelliteInformation_SetUp(r.estimate_info_, unix_time)
             /\ start_unix_time_ = unix_time
             /\ phase = "running"
             /\ now = unix_time

NextIndex ==
  \/ \E sat_num \in IndexIds : CallGetIndexFromId(sat_num)
  \/ \E index \in IndexInputs : CallGetIdFromIndex(index)

SpecIndex == InitIndex /\ [][NextIndex]_vars

(***************************************************************************)
(* Initialize of one tracker, line by line: the loops of                   *)
(* GnssSatellitePosition::Initialize and GnssSatelliteClock::Initialize    *)
(* with one step per body line, on a tracker of a constructed engine.      *)
(***************************************************************************)
\* The segment selectors kObserve1 .. kPredict4.
UrFlags == kObserve1..kPredict4

\* A page of eight epochs, one per segment.
SegmentedProduct == <<Page(0, 7, {}, 0)>>

\* Two pages that share one epoch (the second corrects it), and two pages
\* that share two epochs.
OverlapOne == <<Page(0, 3, {}, 0), Page(3, 6, {}, 1)>>
OverlapTwo == <<Page(0, 3, {}, 0), Page(2, 5, {}, 1)>>

\* A page whose records carry the sentinel in one field each.
SentinelProduct ==
  <<[num_of_time_stamps |-> 3,
     time_interval |-> SampleInterval,
     num_of_sat |-> 2,
     lines |-> <<EpochLine(0, 1, 0),
                 SatLine(G01, 1, nan99, 3, 5),
                 SatLine(R02, 4, 5, 6, nan99),
                 EpochLine(SampleInterval, 0, 1),
                 SatLine(G01, 1, 2, nan99 + 1, 2),
                 SatLine(R02, nan99, 8, 9, 1),
                 EpochLine(2 * SampleInterval, -1, 0),
                 SatLine(G01, 2, 3, 4, 3),
                 SatLine(R02, 5, 6, 7, 4)>>]>>

\* The prefix-tagged clock format: a header line and one record per
\* satellite every 30 s; times are whole seconds (mktime).
Clk30sRecord(i, k, error) ==
  AsLine(Tail(FileSats[i]), k * 30 * OneSecond, (k % 3) + i + error)

RECURSIVE Clk30sBlocks(_, _, _)
Clk30sBlocks(first, last, error) ==
  IF first > last THEN <<>>
  ELSE [i \in 1..Len(FileSats) |-> Clk30sRecord(i, first, error)]
         \o Clk30sBlocks(first + 1, last, error)

Clk30sPage(first, last, error) == [lines |-> <<OtherLine>> \o Clk30sBlocks(first, last, error)]

\* Two pages that share the record time 60 s.
Clk30sProduct == <<Clk30sPage(0, 2, 0), Clk30sPage(2, 5, 1)>>

\* Records from 0 s to 330 s, and a second page from 270 s to 360 s.
Clk30sLong == <<Clk30sPage(0, 11, 0), Clk30sPage(9, 12, 1)>>

Sp3Formats == {"position", "clock_sp3"}

\* The calls of Initialize: the tracker, the pages, the selector and, for the
\* prefix-tagged format, the period returned by the position tracker.
IngestInputs ==
  {[format |-> f, file |-> p, ur_flag |-> kNotUse, unix_time_period |-> <<0, 0>>] :
     f \in Sp3Formats, p \in {ProductA, ProductB, OverlapOne, OverlapTwo, SentinelProduct}}
  \cup {[format |-> f, file |-> p, ur_flag |-> u, unix_time_period |-> <<0, 0>>] :
          f \in Sp3Formats, p \in {SegmentedProduct, ProductB}, u \in UrFlags}
  \cup {[format |-> "clk30s", file |-> Clk30sProduct, ur_flag |-> u,
         unix_time_period |-> <<0, 90 * OneSecond>>] :
          u \in {kNotUse, kObserve1, kObserve1 + 1, kPredict1, kPredict1 + 1, kPredict4}}
  \cup {[format |-> "clk30s", file |-> Clk30sLong, ur_flag |-> kNotUse,
         unix_time_period |->
           GnssSatellitePosition_Initialize(PositionNew, p, 2, kNotUse, 0).unix_time_period] :
          p \in {<<Page(0, 0, {}, 0)>>, <<Page(1, 1, {}, 0)>>}}

\* The lines read from the current page: the range of the selector, or the
\* whole page in the prefix-tagged format.
IngestRange(ing) ==
  LET page == ing.file[ing.page]
  IN IF ing.format = "clk30s"
       THEN [start_line |-> 0, end_line |-> Len(page.lines)]
       ELSE LineRange(page.num_of_sat, page.num_of_time_stamps, ing.ur_flag)

\* The loop over the pages: the next page is opened, or Initialize returns.
IngestOpenPage(ing) ==
  IF ing.st.exc # "none" THEN [ing EXCEPT !.status = "terminated"]
  ELSE IF ing.page + 1 > Len(ing.file) THEN [ing EXCEPT !.status = "done"]
  ELSE [ing EXCEPT !.page = @ + 1, !.i = 0,
                   !.st = CASE ing.format = "position" ->
                                 PositionPageStart(@, ing.file[ing.page + 1])
                            [] ing.format = "clock_sp3" ->
                                 ClockSp3PageStart(@, ing.file[ing.page + 1])
                            [] OTHER ->
                                 Clk30sPageStart(@, ing.ur_flag, ing.unix_time_period)]

\* Initialize up to the first body line of the first page.
IngestStart(in) ==
  IngestOpenPage([status |-> "reading", format |-> in.format, file |-> in.file,
                  ur_flag |-> in.ur_flag, unix_time_period |-> in.unix_time_period,
                  page |-> 0, i |-> 0,
                  st |-> IF in.format = "position"
                           THEN PositionParserStart(PositionNew)
                           ELSE ClockParserStart(ClockNew,
                                                 IF in.format = "clk30s" THEN ".clk30s" ELSE ".sp3",
                                                 in.ur_flag)])

\* The body of the line loop on the current line.
IngestLineRead(ing) ==
  LET page == ing.file[ing.page]
      r == IngestRange(ing)
  IN CASE ing.format = "position" -> PositionReadLine(ing.st, page, ing.i, r.start_line, 0)
       [] ing.format = "clock_sp3" -> ClockSp3ReadLine(ing.st, page, ing.i, r.start_line, 0)
       [] OTHER -> Clk30sReadLine(ing.st, page.lines[ing.i + 1], ing.ur_flag)

IngestReadLine ==
  /\ ingest.status = "reading"
  /\ ingest.i < IngestRange(ingest).end_line - IngestRange(ingest).start_line
  /\ \E st \in {IngestLineRead(ingest)} :
       ingest' = [ingest EXCEPT !.st = st, !.i = @ + 1,
                                !.status = IF st.exc # "none" THEN "terminated" ELSE @]
  /\ UNCHANGED <<is_calc_enabled_, true_info_, estimate_info_, start_unix_time_, phase, now, converted, reader, observed>>

IngestNextPage ==
  /\ ingest.status = "reading"
  /\ ingest.i >= IngestRange(ingest).end_line - IngestRange(ingest).start_line
  /\ ingest' = IngestOpenPage(ingest)
  /\ UNCHANGED <<is_calc_enabled_, true_info_, estimate_info_, start_unix_time_, phase, now, converted, reader, observed>>

InitIngest ==
  /\ is_calc_enabled_ = TRUE
  /\ true_info_ = InformationNew
  /\ estimate_info_ = InformationNew
  /\ start_unix_time_ = 0
  /\ phase = "constructed"
  /\ now = 0
  /\ converted = [op |-> "none"]
  /\ reader = NoReader
  /\ observed = NoCall
  /\ \E in \in IngestInputs : ingest = IngestStart(in)

NextIngest ==
  \/ IngestReadLine
  \/ IngestNextPage

SpecIngest == InitIngest /\ [][NextIngest]_vars

(***************************************************************************)
(* The engine on two consecutive pages sampled every five minutes,         *)
(* interpolation over nine samples, the simulation advancing by one        *)
(* sampling interval per Update.                                           *)
(***************************************************************************)
\* Number of epochs of a page of one day.
OneDay == 24 * 3600 * OneSecond
EpochsPerPage == OneDay \div SampleInterval

\* G01 has every epoch; in the second product R02 misses the epochs around
\* the boundary of the pages and J07 every epoch but the first two.
ConsecutivePages(missing) ==
  <<Page(0, EpochsPerPage - 1, missing, 0),
    Page(EpochsPerPage, 2 * EpochsPerPage - 1, missing, 0)>>

ScenarioProducts ==
  {ConsecutivePages({}),
   ConsecutivePages({<<2, k>> : k \in (EpochsPerPage - 2)..(EpochsPerPage + 1)}
                      \cup {<<3, k>> : k \in 2..(2 * EpochsPerPage - 1)})}

ScenarioConfigurations ==
  {[true_position_file |-> product, true_position_interpolation_number |-> 9,
    true_position_ur_flag |-> kNotUse,
    true_clock_file |-> product, true_clock_file_extension |-> ".sp3",
    true_clock_interpolation_number |-> 3, true_clock_ur_flag |-> kNotUse,
    estimate_position_file |-> product, estimate_position_interpolation_number |-> 9,
    estimate_position_ur_flag |-> kNotUse,
    estimate_clock_file |-> product, estimate_clock_file_extension |-> ".sp3",
    estimate_clock_interpolation_number |-> 3, estimate_clock_ur_flag |-> kNotUse]
     : product \in ScenarioProducts}

\* The time of epoch 12 of the first page, counting its epochs from 1 or from 0.
ScenarioStarts == {11 * SampleInterval, 12 * SampleInterval}

\* The time of the last sample of the product.
ScenarioEnd == (2 * EpochsPerPage - 1) * SampleInterval

InitScenario ==
  /\ is_calc_enabled_ = TRUE
  /\ true_info_ = InformationNew
  /\ estimate_info_ = InformationNew
  /\ start_unix_time_ = 0
  /\ phase = "constructed"
  /\ now = 0
  /\ converted = [op |-> "none"]
  /\ ingest = NoIngest
  /\ reader = NoReader
  /\ observed = NoCall

\* The Update of the next simulation step, until the product ends.
UpdateByInterval ==
  /\ now + SampleInterval <= ScenarioEnd
  /\ Update(now + SampleInterval - start_unix_time_)

NextScenario ==
  \/ \E c \in ScenarioConfigurations : Initialize(c)
  \/ \E unix_time \in ScenarioStarts : SetUp(unix_time)
  \/ UpdateByInterval

SpecScenario == InitScenario /\ [][NextScenario]_vars

(***************************************************************************)
(* InitGnssSatellites: the product files are read one after the other,     *)
(* true position, true clock, estimated position, estimated clock, and     *)
(* GnssSatellites::Initialize is called with their contents.  A file is    *)
(* named by its GPS week and day of week; reader holds the position of the *)
(* function, the locals of the file loop and the calls of ReadFileContents *)
(* made so far.                                                            *)
(***************************************************************************)
Products == <<"true_position", "true_clock", "estimate_position", "estimate_clock">>

\* The daily files a directory may hold, in the order of their days.
DailyFiles ==
  <<[gps_week |-> 2238, day |-> 5], [gps_week |-> 2238, day |-> 6],
    [gps_week |-> 2239, day |-> 0], [gps_week |-> 2239, day |-> 1]>>

\* The contents of the k-th daily file: a page of two epochs.
FileContents(file_name) ==
  LET k == CHOOSE j \in DOMAIN DailyFiles : DailyFiles[j] = file_name
  IN Page(2 * (k - 1), 2 * (k - 1) + 1, {}, 0)

\* The files of the directories: every daily file of every product but the
\* ones of absent.
OnDisk(absent) == {<<p, DailyFiles[j]>> : p \in DOMAIN Products, j \in DOMAIN DailyFiles} \ absent

\* ReadFileContents: the file is opened once; the process exits when it is
\* not open, else its lines are stored.
\* Mutant: a file that is not open is skipped.
ReadFileContents_mut(disk, product, file_name, storage) ==
  IF <<product, file_name>> \notin disk
    THEN [exit |-> FALSE, storage |-> storage]
    ELSE [exit |-> FALSE, storage |-> Append(storage, FileContents(file_name))]

ReadFileContents(disk, product, file_name, storage) ==
  IF <<product, file_name>> \notin disk
    THEN [exit |-> TRUE, storage |-> storage]
    ELSE [exit |-> FALSE, storage |-> Append(storage, FileContents(file_name))]

\* "if (day == 7) { ++gps_week; day = 0; }" and the name of the file
NextFileName(gps_week, day) ==
  IF day = 7 THEN [gps_week |-> gps_week + 1, day |-> 0]
             ELSE [gps_week |-> gps_week, day |-> day]

\* The arguments of GnssSatellites::Initialize built from the files read.
ReaderConfiguration(file_contents) ==
  [true_position_file |-> file_contents[1], true_position_interpolation_number |-> 2,
   true_position_ur_flag |-> kNotUse,
   true_clock_file |-> file_contents[2], true_clock_file_extension |-> ".sp3",
   true_clock_interpolation_number |-> 1, true_clock_ur_flag |-> kNotUse,
   estimate_position_file |-> file_contents[3], estimate_position_interpolation_number |-> 2,
   estimate_position_ur_flag |-> kNotUse,
   estimate_clock_file |-> file_contents[4], estimate_clock_file_extension |-> ".sp3",
   estimate_clock_interpolation_number |-> 1, estimate_clock_ur_flag |-> kNotUse]

\* ReadSp3Files is entered for a product: the locals of its loop.
ReaderAtProduct(r, product) ==
  [r EXCEPT !.status = "reading", !.product = product,
            !.gps_week = r.first.gps_week, !.day = r.first.day]

\* "if (!gnss_satellites->IsCalcEnabled()) return gnss_satellites;"
ReturnDisabled ==
  /\ reader.status = "constructed"
  /\ ~is_calc_enabled_
  /\ reader' = [reader EXCEPT !.status = "returned"]
  /\ UNCHANGED <<is_calc_enabled_, true_info_, estimate_info_, start_unix_time_, phase, now, converted, ingest, observed>>

\* The first call of ReadSp3Files.
StartReading ==
  /\ reader.status = "constructed"
  /\ is_calc_enabled_
  /\ reader' = ReaderAtProduct(reader, 1)
  /\ UNCHANGED <<is_calc_enabled_, true_info_, estimate_info_, start_unix_time_, phase, now, converted, ingest, observed>>

\* One turn of the loop of ReadSp3Files / ReadClockFiles.
ReadNextFile ==
  /\ reader.status = "reading"
  /\ \E file_name \in {NextFileName(reader.gps_week, reader.day)} :
       \E r \in {ReadFileContents(reader.disk, reader.product, file_name,
                                  reader.file_contents[reader.product])} :
         reader' =
           IF r.exit
             THEN [reader EXCEPT !.status = "exited",
                                 !.opened = Append(@, <<reader.product, file_name>>)]
           ELSE IF file_name = reader.last
             THEN IF reader.product < Len(Products)
                    THEN [ReaderAtProduct(reader, reader.product + 1) EXCEPT
                            !.opened = Append(@, <<reader.product, file_name>>),
                            !.file_contents[reader.product] = r.storage]
                    ELSE [reader EXCEPT !.status = "read",
                            !.opened = Append(@, <<reader.product, file_name>>),
                            !.file_contents[reader.product] = r.storage]
           ELSE [reader EXCEPT !.gps_week = file_name.gps_week, !.day = file_name.day + 1,
                               !.opened = Append(@, <<reader.product, file_name>>),
                               !.file_contents[reader.product] = r.storage]
  /\ UNCHANGED <<is_calc_enabled_, true_info_, estimate_info_, start_unix_time_, phase, now, converted, ingest, observed>>

\* gnss_satellites->Initialize(...) with the files read, and the return.
InitializeFromFiles ==
  /\ reader.status = "read"
  /\ phase = "constructed"
  /\ \E r \in {GnssSatellites_Initialize(true_info_, estimate_info_,
                                         ReaderConfiguration(reader.file_contents))} :
       IF r.exc # "none"
         THEN /\ phase' = "terminated"
              /\ UNCHANGED <<true_info_, estimate_info_>>
         ELSE /\ phase' = "initialized"
              /\ true_info_' = r.true_info_
              /\ estimate_info_' = r.estimate_info_
  /\ reader' = [reader EXCEPT !.status = "returned"]
  /\ UNCHANGED <<is_calc_enabled_, start_unix_time_, now, converted, ingest, observed>>

\* The first and last file names of the configuration and the files that
\* are absent from the directories: none or one.
InitFiles ==
  /\ is_calc_enabled_ \in BOOLEAN
  /\ true_info_ = InformationNew
  /\ estimate_info_ = InformationNew
  /\ start_unix_time_ = 0
  /\ phase = "constructed"
  /\ now = 0
  /\ converted = [op |-> "none"]
  /\ ingest = NoIngest
  /\ observed = NoCall
  /\ \E first \in {DailyFiles[1], DailyFiles[2]}, last \in {DailyFiles[j] : j \in DOMAIN DailyFiles},
        absent \in {{}} \cup {{<<p, DailyFiles[j]>>} : p \in DOMAIN Products, j \in DOMAIN DailyFiles} :
       reader = [status |-> "constructed", first |-> first, last |-> last,
                 disk |-> OnDisk(absent), product |-> 0, gps_week |-> 0, day |-> 0,
                 opened |-> <<>>, file_contents |-> [p \in DOMAIN Products |-> <<>>]]

NextFiles ==
  \/ ReturnDisabled
  \/ StartReading
  \/ ReadNextFile
  \/ InitializeFromFiles

SpecFiles == InitFiles /\ [][NextFiles]_vars

(***************************************************************************)
(* The accessors called between the updates of a running engine.  observed *)
(* holds the last call made since the last Update and its result.          *)
(***************************************************************************)
\* GnssSatellites::GetLogHeader: per GPS index the names of the two columns
GetLogHeader ==
  Return([gps_index \in 0..(gps_sat_num_ - 1) |->
            <<<<"GPS", gps_index, "_position", "ecef", "m", 3>>,
              <<"GPS", gps_index, "_clock_offset", "m">>>>])

\* GnssSatellites::GetLogValue: per GPS index the position and the clock of
\* the true track; an exception of an accessor ends it.
GetLogValue ==
  IF \E gps_index \in 0..(gps_sat_num_ - 1) :
       \/ GnssSatelliteInformation_GetSatellitePositionEcef(true_info_, gps_index).exc # "none"
       \/ GnssSatelliteInformation_GetSatelliteClock(true_info_, gps_index).exc # "none"
    THEN Throw("out_of_range")
    ELSE Return([gps_index \in 0..(gps_sat_num_ - 1) |->
                   <<GnssSatelliteInformation_GetSatellitePositionEcef(true_info_, gps_index).val,
                     GnssSatelliteInformation_GetSatelliteClock(true_info_, gps_index).val>>])

\* The result of an accessor call on the current engine.
QueryResult(call) ==
  CASE call.op = "GetNumberOfSatellites" -> Return(GetNumberOfSatellites)
    [] call.op = "GetIdFromIndex" -> Return(GetIdFromIndex(call.index))
    [] call.op = "GetIndexFromId" -> Return(GetIndexFromId(call.sat_num))
    [] call.op = "GetWhetherValid" -> GetWhetherValid(call.id)
    [] call.op = "GetSatellitePositionEcef" -> GetSatellitePositionEcef(call.id)
    [] call.op = "GetSatellitePositionEci" -> GetSatellitePositionEci(call.id)
    [] call.op = "GetSatelliteClock" -> GetSatelliteClock(call.id)
    [] call.op = "GetPseudoRangeECEF" ->
         GetPseudoRangeECEF(call.id, call.rec_position, call.rec_clock, call.frequency)
    [] call.op = "GetPseudoRangeECI" ->
         GetPseudoRangeECI(call.id, call.rec_position, call.rec_clock, call.frequency)
    [] call.op = "GetCarrierPhaseECEF" ->
         GetCarrierPhaseECEF(call.id, call.rec_position, call.rec_clock, call.frequency)
    [] call.op = "GetCarrierPhaseECI" ->
         GetCarrierPhaseECI(call.id, call.rec_position, call.rec_clock, call.frequency)
    [] call.op = "AddIonosphericDelay" ->
         Return(AddIonosphericDelay(call.id, call.rec_position, call.frequency, call.flag))
    [] call.op = "GetLogHeader" -> GetLogHeader
    [] call.op = "GetLogValue" -> GetLogValue

\* The calls made: the satellites of the products and the first identifier
\* out of range.
QueryIds == {0, 33, 116, all_sat_num_}

QueryCalls ==
  {[op |-> op, id |-> id] :
     op \in {"GetWhetherValid", "GetSatellitePositionEcef", "GetSatellitePositionEci",
             "GetSatelliteClock"},
     id \in QueryIds}
  \cup {[op |-> op, id |-> id, rec_position |-> <<earth_equatorial_radius_m + 400000, 0, 0>>,
         rec_clock |-> 30, frequency |-> 3000] :
          op \in {"GetPseudoRangeECEF", "GetPseudoRangeECI",
                  "GetCarrierPhaseECEF", "GetCarrierPhaseECI"},
          id \in QueryIds}
  \cup {[op |-> "AddIonosphericDelay", id |-> id,
         rec_position |-> <<earth_equatorial_radius_m + 400000, 0, 0>>,
         frequency |-> 3000, flag |-> flag] : id \in {0, 33}, flag \in {kEcef, kEci}}
  \cup {[op |-> "GetIdFromIndex", index |-> index] : index \in {0, 31}}
  \cup {[op |-> "GetIndexFromId", sat_num |-> G01],
        [op |-> "GetNumberOfSatellites"], [op |-> "GetLogHeader"], [op |-> "GetLogValue"]}

\* Mutant: an accessor that brings the true track up to the next sample.
Query_mut(call) ==
  /\ phase = "running"
  /\ observed' = [op |-> call.op, call |-> call, result |-> QueryResult(call)]
  /\ true_info_' = GnssSatelliteInformation_Update(true_info_, now + SampleInterval)
  /\ UNCHANGED <<is_calc_enabled_, estimate_info_, start_unix_time_, phase, now, converted, ingest, reader>>

\* A call of a const member function of GnssSatellites.
Query(call) ==
  /\ phase = "running"
  /\ observed' = [op |-> call.op, call |-> call, result |-> QueryResult(call)]
  /\ UNCHANGED <<is_calc_enabled_, true_info_, estimate_info_, start_unix_time_, phase, now, converted, ingest, reader>>

QueryElapsedTimes == {SampleInterval, 2 * SampleInterval, 5 * SampleInterval}

\* GnssSatellites::Update(simulation_time) of the running engine; the calls
\* observed from here on are calls after this Update.
UpdateBetweenQueries(elapsed_sec) ==
  /\ phase = "running"
  /\ is_calc_enabled_
  /\ true_info_' = GnssSatelliteInformation_Update(true_info_, elapsed_sec + start_unix_time_)
  /\ estimate_info_' = GnssSatelliteInformation_Update(estimate_info_, elapsed_sec + start_unix_time_)
  /\ now' = elapsed_sec + start_unix_time_
  /\ observed' = NoCall
  /\ UNCHANGED <<is_calc_enabled_, start_unix_time_, phase, converted, ingest, reader>>

\* The engine after Initialize and SetUp.
InitQuery ==
  /\ is_calc_enabled_ = TRUE
  /\ converted = [op |-> "none"]
  /\ ingest = NoIngest
  /\ reader = NoReader
  /\ observed = NoCall
  /\ \E unix_time \in {0}, c \in Configurations :
       \E r \in {GnssSatellites_Initialize(InformationNew, InformationNew, c)} :
          /\ r.exc = "none"
          /\ true_info_ = GnssSatelliteInformation_SetUp(r.true_info_, unix_time)
          /\ estimate_info_ = GnssSatelliteInformation_SetUp(r.estimate_info_, unix_time)
          /\ start_unix_time_ = unix_time
          /\ phase = "running"
          /\ now = unix_time

NextQuery ==
  \/ \E call \in QueryCalls : Query(call)
  \/ \E elapsed_sec \in QueryElapsedTimes : UpdateBetweenQueries(elapsed_sec)

SpecQuery == InitQuery /\ [][NextQuery]_vars

(***************************************************************************)
(* Two engines that hold the same true track and are set up and updated    *)
(* at the same times, with estimate tracks of different products.  The     *)
(* engine is the first of them; observed holds the estimate track of the   *)
(* second; TwinSwap exchanges the two estimate tracks, so that the states  *)
(* before and after it are the two engines.                                *)
(***************************************************************************)
\* The estimate products of the two engines: complete products with an
\* error of 1 and of 2 in the first coordinate and the clock, and product B.
TwinEstimates ==
  {[file |-> <<Page(0, MaxEpochs - 1, {}, 1)>>, position_number |-> 3, clock_number |-> 2],
   [file |-> <<Page(0, MaxEpochs - 1, {}, 2)>>, position_number |-> 4, clock_number |-> 1],
   [file |-> ProductB, position_number |-> 4, clock_number |-> 3]}

WithEstimate(c, e) ==
  [c EXCEPT !.estimate_position_file = e.file,
            !.estimate_position_interpolation_number = e.position_number,
            !.estimate_clock_file = e.file,
            !.estimate_clock_interpolation_number = e.clock_number]

InitTwin ==
  /\ is_calc_enabled_ = TRUE
  /\ converted = [op |-> "none"]
  /\ ingest = NoIngest
  /\ reader = NoReader
  /\ start_unix_time_ = 0
  /\ now = 0
  /\ phase = "initialized"
  /\ \E c \in Configurations, e \in TwinEstimates, twin \in TwinEstimates :
       \E r \in {GnssSatellites_Initialize(InformationNew, InformationNew, WithEstimate(c, e))} :
         \E t \in {GnssSatellites_Initialize(InformationNew, InformationNew, WithEstimate(c, twin))} :
           /\ r.exc = "none" /\ t.exc = "none"
           /\ true_info_ = r.true_info_
           /\ estimate_info_ = r.estimate_info_
           /\ observed = [op |-> "twin", estimate_info_ |-> t.estimate_info_]

\* GnssSatellites::SetUp of both engines
TwinSetUp(unix_time) ==
  /\ phase = "initialized"
  /\ true_info_' = GnssSatelliteInformation_SetUp(true_info_, unix_time)
  /\ estimate_info_' = GnssSatelliteInformation_SetUp(estimate_info_, unix_time)
  /\ observed' = [observed EXCEPT !.estimate_info_ = GnssSatelliteInformation_SetUp(@, unix_time)]
  /\ start_unix_time_' = unix_time
  /\ phase' = "running"
  /\ now' = unix_time
  /\ UNCHANGED <<is_calc_enabled_, converted, ingest, reader>>

\* GnssSatellites::Update of both engines
TwinUpdate(elapsed_sec) ==
  /\ phase = "running"
  /\ true_info_' = GnssSatelliteInformation_Update(true_info_, elapsed_sec + start_unix_time_)
  /\ estimate_info_' = GnssSatelliteInformation_Update(estimate_info_, elapsed_sec + start_unix_time_)
  /\ observed' = [observed EXCEPT
                    !.estimate_info_ = GnssSatelliteInformation_Update(@, elapsed_sec + start_unix_time_)]
  /\ now' = elapsed_sec + start_unix_time_
  /\ UNCHANGED <<is_calc_enabled_, start_unix_time_, phase, converted, ingest, reader>>

\* From one engine to the other.
TwinSwap ==
  /\ phase = "running"
  /\ estimate_info_' = observed.estimate_info_
  /\ observed' = [observed EXCEPT !.estimate_info_ = estimate_info_]
  /\ UNCHANGED <<is_calc_enabled_, true_info_, start_unix_time_, phase, now, converted, ingest, reader>>

TwinStartTimes == {0, SampleInterval, 3 * SampleInterval + (SampleInterval \div 2)}

TwinElapsedTimes == {1, SampleInterval \div 2, SampleInterval, 2 * SampleInterval}

NextTwin ==
  \/ \E unix_time \in TwinStartTimes : TwinSetUp(unix_time)
  \/ \E elapsed_sec \in TwinElapsedTimes : TwinUpdate(elapsed_sec)
  \/ TwinSwap

SpecTwin == InitTwin /\ [][NextTwin]_vars

(***************************************************************************)
(* Properties                                                              *)
(***************************************************************************)
Tracks == {true_info_, estimate_info_}

\* Identifiers handed to the accessors: every satellite, the neighbours of
\* the range and the sentinel of GetIndexFromId.
AccessorIds == Sats \cup {-1, all_sat_num_, all_sat_num_ + 1, INT32_MAX}

\* Time span of a window.
Span(time_period_list) == time_period_list[Len(time_period_list)] - time_period_list[1]

\* C1 (a), (b), (c) for one satellite of a tracker whose validity is true.
WindowRequirement(tracker, s, slack) ==
  LET w == tracker.sat_[s]
      n == tracker.interpolation_number_
  IN /\ Len(w.time_period_list_) = n
     /\ Span(w.time_period_list_) <= (n - 1 + slack) * tracker.time_interval_ + Tol
     /\ w.nearest_index_ < Len(tracker.unix_time_list[s])
     /\ Abs(now - tracker.unix_time_list[s][w.nearest_index_ + 1]) <= tracker.time_interval_

\* C1: after SetUp(t) and any sequence of Update(t), a satellite whose
\* position (clock) validity is true has a stored window of exactly N
\* samples, of time span at most (N - 1 + slack) * nominal interval (+ 1e-4 s)
\* with slack 3 for position and 0 for clock, and t is within the nominal
\* interval of the sample at nearest_index.
C1_ValidWindow ==
  phase = "running" =>
    \A info \in Tracks : \A s \in Sats :
      /\ info.position_.sat_[s].validate_ => WindowRequirement(info.position_, s, 3)
      /\ info.clock_.sat_[s].validate_ => WindowRequirement(info.clock_, s, 0)

\* C1 witness: after an Update, a position window is valid with a span that
\* needs the slack, and a clock window is valid.
C1_Witness ==
  /\ phase = "running"
  /\ now # start_unix_time_
  /\ \E info \in Tracks : \E s \in Sats :
       /\ info.position_.sat_[s].validate_
       /\ Span(info.position_.sat_[s].time_period_list_)
            > (info.position_.interpolation_number_ - 1) * info.position_.time_interval_ + Tol
  /\ \E info \in Tracks : \E s \in Sats : info.clock_.sat_[s].validate_

\* The stored validity flags of one track for an identifier.
TrackValid(info, id) ==
  /\ id \in DOMAIN info.position_.sat_ /\ info.position_.sat_[id].validate_
  /\ id \in DOMAIN info.clock_.sat_ /\ info.clock_.sat_[id].validate_

\* C2: the facade validity of an identifier is true exactly when the
\* identifier is below the total satellite count and the position and the
\* clock window of the true and of the estimate track are all valid; it is
\* false for every identifier at or above the total satellite count.
C2_FacadeValidity ==
  \A id \in AccessorIds :
    /\ Returns(GetWhetherValid(id), TRUE)
         <=> (id < all_sat_num_ /\ TrackValid(true_info_, id) /\ TrackValid(estimate_info_, id))
    /\ id >= all_sat_num_ => Returns(GetWhetherValid(id), FALSE)

\* C2 witness: one satellite is valid on the facade while another is valid
\* in the true track only.
C2_Witness ==
  /\ \E id \in Sats : Returns(GetWhetherValid(id), TRUE)
  /\ \E id \in Sats : TrackValid(true_info_, id) /\ ~TrackValid(estimate_info_, id)
  /\ \E id \in Sats : ~TrackValid(true_info_, id) /\ TrackValid(estimate_info_, id)

\* Receiver inputs of the observables.
RecPositions == {<<earth_equatorial_radius_m + 400000, 0, 0>>,
                 <<0, earth_equatorial_radius_m + 1000000, 0>>,
                 <<0, 0, -(earth_equatorial_radius_m + 2000000)>>}
RecClocks == {0, 30}
Frequencies == {1500, 3000}

\* Identifiers for the observables: the satellites of the products, their
\* neighbours and the identifiers outside the range.
ObservableIds == {0, 1, 33, 116, all_sat_num_, all_sat_num_ + 1, INT32_MAX}

\* C3: for every receiver position, receiver clock and frequency, PseudoRange
\* (ECEF and ECI) returns 0 and CarrierPhase (ECEF and ECI) returns (0, 0),
\* without raising, when the identifier is at or above the total satellite
\* count or the facade validity of the satellite is false.
C3_DegenerateObservables ==
  \A id \in ObservableIds :
    (id >= all_sat_num_ \/ Returns(GetWhetherValid(id), FALSE)) =>
      \A r \in RecPositions : \A c \in RecClocks : \A f \in Frequencies :
        /\ Returns(GetPseudoRangeECEF(id, r, c, f), Zero)
        /\ Returns(GetPseudoRangeECI(id, r, c, f), Zero)
        /\ Returns(GetCarrierPhaseECEF(id, r, c, f), <<Zero, Zero>>)
        /\ Returns(GetCarrierPhaseECI(id, r, c, f), <<Zero, Zero>>)

\* C3 witness: a satellite is invalid on the facade although its true track
\* is valid with a non-zero position and clock.
C3_Witness ==
  \E id \in ObservableIds \cap Sats :
    /\ Returns(GetWhetherValid(id), FALSE)
    /\ TrackValid(true_info_, id)
    /\ true_info_.position_.sat_[id].position_ecef_m_ # ZeroVector
    /\ true_info_.clock_.sat_[id].clock_offset_m_ # Zero

\* C4: GetSatellitePositionEcef, GetSatellitePositionEci and
\* GetSatelliteClock return the zero vector / 0 when the identifier is at or
\* above the total satellite count or the facade validity is false, and the
\* current value of the estimate track when the facade validity is true.
C4_FacadeValues ==
  \A id \in AccessorIds :
    /\ (id >= all_sat_num_ \/ Returns(GetWhetherValid(id), FALSE)) =>
         /\ Returns(GetSatellitePositionEcef(id), ZeroVector)
         /\ Returns(GetSatellitePositionEci(id), ZeroVector)
         /\ Returns(GetSatelliteClock(id), Zero)
    /\ Returns(GetWhetherValid(id), TRUE) =>
         /\ Returns(GetSatellitePositionEcef(id), estimate_info_.position_.sat_[id].position_ecef_m_)
         /\ Returns(GetSatellitePositionEci(id), estimate_info_.position_.sat_[id].position_eci_m_)
         /\ Returns(GetSatelliteClock(id), estimate_info_.clock_.sat_[id].clock_offset_m_)

\* C4 witness: a satellite valid on the facade whose estimate values differ
\* from the true ones, and a satellite invalid on the facade whose estimate
\* track holds a non-zero position.
C4_Witness ==
  /\ \E id \in Sats :
       /\ Returns(GetWhetherValid(id), TRUE)
       /\ estimate_info_.position_.sat_[id].position_ecef_m_ # true_info_.position_.sat_[id].position_ecef_m_
       /\ estimate_info_.position_.sat_[id].position_eci_m_ # true_info_.position_.sat_[id].position_eci_m_
       /\ estimate_info_.clock_.sat_[id].clock_offset_m_ # true_info_.clock_.sat_[id].clock_offset_m_
  /\ \E id \in Sats :
       /\ Returns(GetWhetherValid(id), FALSE)
       /\ estimate_info_.position_.sat_[id].position_ecef_m_ # ZeroVector

\* C5: after SetUp and any sequence of Update, a satellite whose position
\* (clock) validity is false has a zero ECEF and ECI position (a zero clock
\* offset) at the track accessors GetPosition_ecef_m, GetPosition_eci_m and
\* GetSatClock.
C5_InvalidIsZero ==
  phase = "running" =>
    \A info \in Tracks : \A s \in Sats :
      /\ ~info.position_.sat_[s].validate_ =>
           /\ Returns(GetPosition_ecef_m(info.position_, s), ZeroVector)
           /\ Returns(GetPosition_eci_m(info.position_, s), ZeroVector)
      /\ ~info.clock_.sat_[s].validate_ => Returns(GetSatClock(info.clock_, s), Zero)

\* C6: a single Update changes the nearest_index of every satellite of
\* every tracker by 0 or by +1, whatever the query time.
C6_IndexStep ==
  [][(phase = "running" /\ phase' = "running") =>
       \A s \in Sats :
         /\ true_info_'.position_.sat_[s].nearest_index_ - true_info_.position_.sat_[s].nearest_index_ \in {0, 1}
         /\ true_info_'.clock_.sat_[s].nearest_index_ - true_info_.clock_.sat_[s].nearest_index_ \in {0, 1}
         /\ estimate_info_'.position_.sat_[s].nearest_index_ - estimate_info_.position_.sat_[s].nearest_index_ \in {0, 1}
         /\ estimate_info_'.clock_.sat_[s].nearest_index_ - estimate_info_.clock_.sat_[s].nearest_index_ \in {0, 1}]_vars

\* C6 witness: the window has advanced since SetUp (the sample before the
\* nearest one is not before the start time), and an Update with an earlier
\* query time, more than the nominal interval before the nearest sample and
\* closer to the previous sample, has left the index where it was.
C6_Witness ==
  /\ phase = "running"
  /\ \E info \in Tracks : \E s \in Sats :
       LET w == info.position_.sat_[s]
           times == info.position_.unix_time_list[s]
       IN /\ w.nearest_index_ > 0
          /\ w.nearest_index_ < Len(times)
          /\ times[w.nearest_index_] >= start_unix_time_
          /\ Abs(now - times[w.nearest_index_]) < Abs(now - times[w.nearest_index_ + 1])
          /\ now < times[w.nearest_index_ + 1] - info.position_.time_interval_

\* The identifiers of the tracked satellites: a constellation tag and a
\* two-digit number between 1 and the population of the constellation.
Population(tag) ==
  CASE tag = "G" -> gps_sat_num_
    [] tag = "R" -> glonass_sat_num_
    [] tag = "E" -> galileo_sat_num_
    [] tag = "C" -> beidou_sat_num_
    [] tag = "J" -> qzss_sat_num_

SatelliteIds == UNION {{<<tag>> \o TwoDigits(n) : n \in 1..Population(tag)} : tag \in Constellations}

\* An identifier without its record prefix, and its constellation tag.
Unprefixed(sat_num) == IF Head(sat_num) = "P" THEN Tail(sat_num) ELSE sat_num
TagOf(sat_num) == Head(Unprefixed(sat_num))

\* C7: for every flat index i with 0 <= i < total satellite count,
\* GetIndexFromId(GetIdFromIndex(i)) = i.
C7_RoundTripFromIndex ==
  (converted.op = "GetIdFromIndex" /\ converted.index \in Sats) =>
    GetIndexFromId(converted.sat_num) = converted.index

\* C7 witness: GetIdFromIndex has been applied to the last valid index.
C7_Witness ==
  /\ converted.op = "GetIdFromIndex"
  /\ converted.index = all_sat_num_ - 1
  /\ converted.sat_num = <<"J", "0", "7">>

\* C8: for every identifier of a tracked satellite,
\* GetIdFromIndex(GetIndexFromId(id)) = id: the identifier returned for an
\* index carries the tag of the constellation that owns the index.
C8_RoundTripFromId ==
  (converted.op = "GetIndexFromId" /\ converted.sat_num \in SatelliteIds) =>
    GetIdFromIndex(converted.index) = converted.sat_num

\* C8 witness: GetIndexFromId has been applied to the last BeiDou satellite,
\* whose index is the last one below the QZSS offset.
C8_Witness ==
  /\ converted.op = "GetIndexFromId"
  /\ converted.sat_num = <<"C", "1", "6">>
  /\ converted.index = qzss_index_bias_

\* C9: two distinct identifiers of tracked satellites have distinct indices,
\* every such index lies in [0, total satellite count), and the index is the
\* same with and without the leading 'P'.
C9_Lossless ==
  (converted.op = "GetIndexFromId" /\ Unprefixed(converted.sat_num) \in SatelliteIds) =>
    /\ converted.index \in Sats
    /\ \A other \in SatelliteIds :
         other # Unprefixed(converted.sat_num) => GetIndexFromId(other) # converted.index
    /\ GetIndexFromId(Unprefixed(converted.sat_num)) = converted.index
    /\ GetIndexFromId(<<"P">> \o Unprefixed(converted.sat_num)) = converted.index

\* C9 witness: GetIndexFromId has been applied to a prefixed identifier of
\* the first satellite of a constellation other than GPS.
C9_Witness ==
  /\ converted.op = "GetIndexFromId"
  /\ converted.sat_num = <<"P", "E", "0", "1">>
  /\ converted.index = gps_sat_num_ + glonass_sat_num_

\* C10: for an identifier whose constellation tag is not G, R, E, C or J,
\* GetIndexFromId returns a value at or above the total satellite count, and
\* every accessor called with this value returns invalid or zero and does
\* not raise.
C10_Sentinel ==
  (converted.op = "GetIndexFromId" /\ TagOf(converted.sat_num) \notin Constellations) =>
    LET id == converted.index IN
    /\ id >= all_sat_num_
    /\ Returns(GetWhetherValid(id), FALSE)
    /\ \A info \in Tracks :
         /\ Returns(GnssSatelliteInformation_GetWhetherValid(info, id), FALSE)
         /\ Returns(GnssSatelliteInformation_GetSatellitePositionEcef(info, id), ZeroVector)
         /\ Returns(GnssSatelliteInformation_GetSatellitePositionEci(info, id), ZeroVector)
         /\ Returns(GnssSatelliteInformation_GetSatelliteClock(info, id), Zero)
    /\ Returns(GetSatellitePositionEcef(id), ZeroVector)
    /\ Returns(GetSatellitePositionEci(id), ZeroVector)
    /\ Returns(GetSatelliteClock(id), Zero)
    /\ \A r \in RecPositions : \A c \in RecClocks : \A f \in Frequencies :
         /\ Returns(GetPseudoRangeECEF(id, r, c, f), Zero)
         /\ Returns(GetPseudoRangeECI(id, r, c, f), Zero)
         /\ Returns(GetCarrierPhaseECEF(id, r, c, f), <<Zero, Zero>>)
         /\ Returns(GetCarrierPhaseECI(id, r, c, f), <<Zero, Zero>>)
         /\ Returns(AddIonosphericDelay(id, r, f, kEcef), Zero)
         /\ Returns(AddIonosphericDelay(id, r, f, kEci), Zero)

\* C10 witness: GetIndexFromId has been applied to a prefixed identifier
\* with an unknown tag, in an engine that has been set up.
C10_Witness ==
  /\ converted.op = "GetIndexFromId"
  /\ converted.sat_num = <<"P", "S", "2", "0">>
  /\ phase = "running"

\* The four trackers of the engine.
Trackers == {info.position_ : info \in Tracks} \cup {info.clock_ : info \in Tracks}

\* C14: for every satellite that is valid after SetUp(t) or Update(t), if t
\* is the timestamp of a stored sample of the satellite, the evaluated ECEF
\* position, ECI position and clock offset are that sample's values; when t
\* is within 1e-4 s of the timestamp at nearest_index, the sample at
\* nearest_index is returned.
C14_ExactMatch ==
  phase = "running" =>
    \A info \in Tracks : \A s \in Sats :
      /\ LET p == info.position_
             w == p.sat_[s]
             times == p.unix_time_list[s]
         IN w.validate_ =>
              /\ \A k \in DOMAIN times : times[k] = now =>
                   /\ w.position_ecef_m_ = NumVector(p.time_series_position_ecef_m_[s][k])
                   /\ w.position_eci_m_ = NumVector(p.time_series_position_eci_m_[s][k])
              /\ Abs(now - times[w.nearest_index_ + 1]) < Tol =>
                   /\ w.position_ecef_m_
                        = NumVector(p.time_series_position_ecef_m_[s][w.nearest_index_ + 1])
                   /\ w.position_eci_m_
                        = NumVector(p.time_series_position_eci_m_[s][w.nearest_index_ + 1])
      /\ LET c == info.clock_
             w == c.sat_[s]
             times == c.unix_time_list[s]
         IN w.validate_ =>
              /\ \A k \in DOMAIN times : times[k] = now =>
                   w.clock_offset_m_ = Num(c.time_series_clock_offset_m_[s][k])
              /\ Abs(now - times[w.nearest_index_ + 1]) < Tol =>
                   w.clock_offset_m_ = Num(c.time_series_clock_offset_m_[s][w.nearest_index_ + 1])

\* C16: a satellite whose series holds fewer than N samples, or fewer than
\* floor(N/2) samples before nearest_index, or fewer than ceil(N/2) - 1
\* samples after it, is invalid after SetUp and after every Update.
C16_TooFewSamples ==
  phase = "running" =>
    \A tracker \in Trackers : \A s \in Sats :
      LET n == tracker.interpolation_number_
          size == Len(tracker.unix_time_list[s])
          w == tracker.sat_[s]
      IN (\/ size < n
          \/ w.nearest_index_ < n \div 2
          \/ size - 1 - w.nearest_index_ < ((n + 1) \div 2) - 1) => ~w.validate_

\* C16 witness: after an Update, a satellite with at least N stored samples
\* and the query time within the interval of its nearest sample is invalid
\* because the window around nearest_index is cut by an end of the series.
C16_Witness ==
  /\ phase = "running"
  /\ now # start_unix_time_
  /\ \E tracker \in Trackers : \E s \in Sats :
       LET n == tracker.interpolation_number_
           times == tracker.unix_time_list[s]
           w == tracker.sat_[s]
       IN /\ Len(times) >= n
          /\ w.nearest_index_ < Len(times)
          /\ ~TooFar(now, times[w.nearest_index_ + 1], tracker.time_interval_)
          /\ Len(times) - 1 - w.nearest_index_ < ((n + 1) \div 2) - 1
          /\ ~w.validate_

\* C17: SetUp(start_time) leaves a satellite invalid when its series is
\* empty or every stored timestamp is below start_time.
C17_SetUpPastEnd ==
  [][(phase = "initialized" /\ phase' = "running") =>
       \A tracker \in {true_info_'.position_, true_info_'.clock_,
                       estimate_info_'.position_, estimate_info_'.clock_} :
         \A s \in Sats :
           LET times == tracker.unix_time_list[s]
           IN (times = <<>> \/ \A k \in DOMAIN times : times[k] < start_unix_time_')
                => ~tracker.sat_[s].validate_]_vars

\* C17 witness: SetUp was called with a time after the last sample of a
\* satellite whose series is not empty, and the search reached the end.
C17_Witness ==
  /\ phase = "running"
  /\ now = start_unix_time_
  /\ \E tracker \in Trackers : \E s \in Sats :
       LET times == tracker.unix_time_list[s]
       IN /\ times # <<>>
          /\ \A k \in DOMAIN times : times[k] < start_unix_time_
          /\ tracker.sat_[s].nearest_index_ = Len(times)
          /\ ~tracker.sat_[s].validate_

\* A step of the line loop, and the line it reads.
IngestStep ==
  /\ ingest.status = "reading"
  /\ ingest'.page = ingest.page
  /\ ingest'.i = ingest.i + 1

IngestLineNumber(ing) == IngestRange(ing).start_line + ing.i + 1

\* The step reads a satellite record of an orbit-format page.
ReadsSp3Record ==
  /\ IngestStep
  /\ ingest.format \in Sp3Formats
  /\ ingest.i % (ingest.file[ingest.page].num_of_sat + 1) # 0
  /\ IngestLineNumber(ingest) \in DOMAIN ingest.file[ingest.page].lines
  /\ ingest.file[ingest.page].lines[IngestLineNumber(ingest)].mark = "P"

\* The step reads a bias record of the prefix-tagged format inside the
\* period of the page.
ReadsClk30sRecord ==
  /\ IngestStep
  /\ ingest.format = "clk30s"
  /\ ingest.file[ingest.page].lines[IngestLineNumber(ingest)].mark = "AS"
  /\ ~ingest.st.stop
  /\ ingest.st.start_unix_time >= 0
  /\ ingest.st.start_unix_time
       <= ingest.file[ingest.page].lines[IngestLineNumber(ingest)].t
  /\ ingest.file[ingest.page].lines[IngestLineNumber(ingest)].t
       < ingest.st.end_unix_time

\* The fields of a record that the tracker of the format reads.
RecordFields(format, l) == IF format = "position" THEN {l.x, l.y, l.z} ELSE {l.clk}

\* The sample a record yields: satellite, time and the stored values.
Sp3Sample(ing, l) ==
  [id |-> GetIndexFromId(l.id),
   unix_time |-> ing.st.unix_time,
   values |-> IF ing.format = "position"
                THEN [ecef |-> <<l.x * 1000, l.y * 1000, l.z * 1000>>,
                      eci |-> ToEci(<<l.x * 1000, l.y * 1000, l.z * 1000>>,
                                    ing.st.cos_, ing.st.sin_)]
                ELSE [clock |-> l.clk * speed_of_light_m_s]]

Clk30sSample(l) ==
  [id |-> GetIndexFromId(l.id), unix_time |-> l.t,
   values |-> [clock |-> l.bias * speed_of_light_m_s]]

\* The merge rule of the claim for the step's sample.
MergedByRule(sample) ==
  LET old == ingest.st
      new == ingest'.st
      times == old.unix_time_list[sample.id]
      overwrite == times # <<>> /\ Abs(sample.unix_time - times[Len(times)]) < OneSecond
  IN /\ new.unix_time_list[sample.id]
          = IF overwrite THEN [times EXCEPT ![Len(times)] = sample.unix_time]
                         ELSE Append(times, sample.unix_time)
     /\ \A f \in DOMAIN sample.values :
          new[f][sample.id]
            = IF overwrite THEN [old[f][sample.id] EXCEPT ![Len(times)] = sample.values[f]]
                           ELSE Append(old[f][sample.id], sample.values[f])
     /\ \A s \in Sats \ {sample.id} :
          /\ new.unix_time_list[s] = old.unix_time_list[s]
          /\ \A f \in DOMAIN sample.values : new[f][s] = old[f][s]

StrictlyIncreasing(times) == \A k \in 1..(Len(times) - 1) : times[k] < times[k + 1]

\* C11: after Initialize of a position or clock tracker on any sequence of
\* pages, the stored timestamp list of every satellite is strictly
\* increasing.
C11_StrictlyIncreasing ==
  ingest.status = "done" =>
    \A s \in Sats : StrictlyIncreasing(ingest.st.unix_time_list[s])

\* C12: in the orbit-format position, the orbit-format clock and the
\* prefix-tagged clock format, a parsed sample whose timestamp is within 1 s
\* of the satellite's last stored sample overwrites that sample (timestamp
\* and value) and leaves the length of the series unchanged; any other
\* sample is appended as the new last element.
C12_MergeRule ==
  [][/\ (ReadsSp3Record
           /\ RecordFields(ingest.format, ingest.file[ingest.page].lines[IngestLineNumber(ingest)])
                \cap {nan99, nan99 + 1} = {}
           /\ GetIndexFromId(ingest.file[ingest.page].lines[IngestLineNumber(ingest)].id) \in Sats)
          => MergedByRule(Sp3Sample(ingest, ingest.file[ingest.page].lines[IngestLineNumber(ingest)]))
     /\ (ReadsClk30sRecord
           /\ GetIndexFromId(ingest.file[ingest.page].lines[IngestLineNumber(ingest)].id) \in Sats)
          => MergedByRule(Clk30sSample(ingest.file[ingest.page].lines[IngestLineNumber(ingest)]))
    ]_vars

\* C12 witness: in each of the three formats a finished Initialize holds a
\* satellite whose series is shorter than the number of its records with
\* values, the record at the shared time having been overwritten by the
\* later page's.
C12_Witness ==
  /\ ingest.status = "done"
  /\ \/ /\ ingest.format \in Sp3Formats
        /\ ingest.file = OverlapOne
        /\ Len(ingest.st.unix_time_list[0]) = 7
        /\ ingest.st.unix_time_list[0][4] = 3 * SampleInterval
        /\ ingest.format = "position" => ingest.st.ecef[0][4] = <<5000, 2000, 21000>>
     \/ /\ ingest.format = "clk30s"
        /\ ingest.ur_flag = kNotUse
        /\ Len(ingest.st.unix_time_list[0]) = 4
        /\ ingest.st.unix_time_list[0][3] = 60 * OneSecond
        /\ ingest.st.clock[0][3] = 4 * speed_of_light_m_s

\* C13: a satellite record of an orbit-format page that carries the sentinel
\* 999999.999999 (in a coordinate for the position tracker, in the clock
\* field for the clock tracker) stores no sample and does not end the
\* parse; every record without the sentinel of a tracked satellite, at the
\* same or a later epoch, is stored with the time of its epoch.
C13_SentinelDropped ==
  [][ReadsSp3Record =>
       LET l == ingest.file[ingest.page].lines[IngestLineNumber(ingest)]
           fields == RecordFields(ingest.format, l)
           id == GetIndexFromId(l.id)
       IN /\ nan99 \in fields =>
               /\ ingest'.st = ingest.st
               /\ ingest'.status = "reading"
          /\ (fields \cap {nan99, nan99 + 1} = {} /\ id \in Sats) =>
               /\ ingest'.status = "reading"
               /\ ingest'.st.unix_time_list[id] # <<>>
               /\ ingest'.st.unix_time_list[id][Len(ingest'.st.unix_time_list[id])]
                    = ingest.st.unix_time
    ]_vars

\* C13 witness: the page with sentinels has been read to its end; of G01
\* only the record of the last epoch is stored by the position tracker, and
\* R02's record of the first epoch is stored by the position tracker and
\* dropped by the clock tracker.
C13_Witness ==
  /\ ingest.status = "done"
  /\ ingest.file = SentinelProduct
  /\ \/ /\ ingest.format = "position"
        /\ ingest.st.unix_time_list[0] = <<2 * SampleInterval>>
        /\ ingest.st.unix_time_list[33] = <<0, 2 * SampleInterval>>
     \/ /\ ingest.format = "clock_sp3"
        /\ ingest.st.unix_time_list[0] = <<0, SampleInterval, 2 * SampleInterval>>
        /\ ingest.st.unix_time_list[33] = <<SampleInterval, 2 * SampleInterval>>

\* The eight line ranges of a page with S satellites and T epochs.
SegmentRange(page, k) == LineRange(page.num_of_sat, page.num_of_time_stamps, kObserve1 + k)

\* C18: with a segment selector, the line ranges of the eight offsets are
\* pairwise disjoint, contiguous and all of length floor((S + 1) * T / 8);
\* when T is a multiple of 8 each range starts on an epoch line, every line
\* of it is read in its role, and the tracker stores the records of the
\* selected range with the times of their epochs.
C18_Segments ==
  (ingest.status # "none" /\ ingest.format \in Sp3Formats /\ ingest.ur_flag \in UrFlags) =>
    \A p \in DOMAIN ingest.file :
      LET page == ingest.file[p]
          S == page.num_of_sat
          T == page.num_of_time_stamps
          seg == ((S + 1) * T) \div 8
      IN /\ \A k \in 0..7 :
              /\ SegmentRange(page, k).end_line - SegmentRange(page, k).start_line = seg
              /\ k < 7 => SegmentRange(page, k).end_line = SegmentRange(page, k + 1).start_line
              /\ \A j \in 0..7 :
                   j # k => \/ SegmentRange(page, k).end_line <= SegmentRange(page, j).start_line
                            \/ SegmentRange(page, j).end_line <= SegmentRange(page, k).start_line
         /\ T % 8 = 0 =>
              /\ \A k \in 0..7 : \A i \in 0..(seg - 1) :
                   (i % (S + 1) = 0)
                     <=> page.lines[SegmentRange(page, k).start_line + i + 1].mark = "*"
              /\ ingest.status # "terminated"
              /\ (ingest.status = "done" /\ Len(ingest.file) = 1) =>
                   \A i \in 0..(seg - 1) :
                     LET l == page.lines[IngestRange(ingest).start_line + i + 1]
                         epoch == page.lines[IngestRange(ingest).start_line + i - (i % (S + 1)) + 1]
                     IN (i % (S + 1) # 0 /\ RecordFields(ingest.format, l) \cap {nan99, nan99 + 1} = {})
                          => \E e \in DOMAIN ingest.st.unix_time_list[GetIndexFromId(l.id)] :
                               ingest.st.unix_time_list[GetIndexFromId(l.id)][e] = epoch.t
              /\ (ingest.status = "done" /\ Len(ingest.file) = 1) =>
                   \A s \in {0, 33, 116} :
                     /\ Len(ingest.st.unix_time_list[s]) <= T \div 8
                     /\ \A e \in DOMAIN ingest.st.unix_time_list[s] :
                          \E i \in 0..(seg - 1) :
                            /\ i % (S + 1) = 0
                            /\ page.lines[IngestRange(ingest).start_line + i + 1].t
                                 = ingest.st.unix_time_list[s][e]

\* C18 witness: the fourth segment of a page of eight epochs has been read,
\* and the stored sample of G01 is the one of the fourth epoch.
C18_Witness ==
  /\ ingest.status = "done"
  /\ ingest.format \in Sp3Formats
  /\ ingest.ur_flag = kObserve1 + 3
  /\ ingest.file = SegmentedProduct
  /\ ingest.st.unix_time_list[0] = <<3 * SampleInterval>>

\* The index of the stored sample of G01 at the simulation time.
SampleIndexNow(track) == (CHOOSE k \in 1..Len(track.unix_time_list[0]) : track.unix_time_list[0][k] = now) - 1

\* C15: on two consecutive one-day position pages sampled every 5 minutes
\* with N = 9, SetUp at the time of epoch 12 of the first page leaves G01
\* valid with the stored sample of that epoch as position, and every Update
\* that advances the time by 5 minutes, also across the boundary of the
\* pages, leaves G01 valid with nearest_index the index of the sample at the
\* simulation time, as long as at least 4 stored samples follow that sample.
C15_Scenario ==
  phase = "running" =>
    \A info \in Tracks :
      LET track == info.position_
          times == track.unix_time_list[0]
      IN /\ Len(times) = 2 * EpochsPerPage
         /\ \E k \in 1..Len(times) : times[k] = now
         /\ SampleIndexNow(track) + 4 <= Len(times) - 1 =>
              /\ track.sat_[0].validate_
              /\ track.sat_[0].nearest_index_ = SampleIndexNow(track)
              /\ now = start_unix_time_ =>
                   /\ track.sat_[0].position_ecef_m_
                        = NumVector(track.time_series_position_ecef_m_[0][SampleIndexNow(track) + 1])
                   /\ track.sat_[0].position_eci_m_
                        = NumVector(track.time_series_position_eci_m_[0][SampleIndexNow(track) + 1])

\* C15 witness: the simulation has crossed the boundary of the two pages; the
\* time is that of the third epoch of the second page and G01 is valid on a
\* window that holds samples of both pages.
C15_Witness ==
  /\ phase = "running"
  /\ now = (EpochsPerPage + 2) * SampleInterval
  /\ true_info_.position_.sat_[0].validate_
  /\ true_info_.position_.sat_[0].nearest_index_ = EpochsPerPage + 2
  /\ true_info_.position_.sat_[0].time_period_list_[1] = (EpochsPerPage - 2) * SampleInterval
  /\ Len(true_info_.position_.sat_[0].time_period_list_) = 9

\* The file names from first to last in the order of the file loop, up to
\* the last daily file.
RECURSIVE Enumerated(_, _)
Enumerated(file_name, last) ==
  IF file_name = last \/ file_name \notin {DailyFiles[j] : j \in DOMAIN DailyFiles} THEN <<file_name>>
  ELSE <<file_name>> \o Enumerated(NextFileName(file_name.gps_week, file_name.day + 1), last)

\* C19: when a file of the enumerated sequence of a product cannot be
\* opened, the process terminates at that file: it is opened once, it is
\* the last file opened, every file before it was opened once and in the
\* order of the enumeration, and GnssSatellites::Initialize has not been
\* and is not called; the engine is initialized only with the complete
\* sequence of every product.
C19_FatalOpen ==
  /\ reader.status # "none" =>
       /\ \A k \in DOMAIN reader.opened :
            reader.opened[k] \notin reader.disk
              => /\ k = Len(reader.opened)
                 /\ reader.status = "exited"
       /\ \A j, k \in DOMAIN reader.opened : reader.opened[j] = reader.opened[k] => j = k
       /\ \A p \in DOMAIN Products :
            LET calls == SelectSeq(reader.opened, LAMBDA a : a[1] = p)
                names == Enumerated(reader.first, reader.last)
            IN /\ Len(calls) <= Len(names)
               /\ \A k \in DOMAIN calls : calls[k][2] = names[k]
               /\ Len(reader.file_contents[p]) = Cardinality({k \in DOMAIN calls : calls[k] \in reader.disk})
       /\ reader.status = "exited" =>
            /\ reader.opened # <<>>
            /\ reader.opened[Len(reader.opened)] \notin reader.disk
            /\ phase = "constructed"
            /\ true_info_ = InformationNew /\ estimate_info_ = InformationNew
            /\ ~ENABLED NextFiles
       /\ phase # "constructed" =>
            \A p \in DOMAIN Products :
              /\ reader.file_contents[p]
                   = [k \in DOMAIN Enumerated(reader.first, reader.last)
                        |-> FileContents(Enumerated(reader.first, reader.last)[k])]
              /\ \A k \in DOMAIN Enumerated(reader.first, reader.last) :
                   <<p, Enumerated(reader.first, reader.last)[k]>> \in reader.disk

\* C19 witness: the second file of the estimated position product could not
\* be opened: the process has exited at it, after the files of the products
\* before it and the first file of its product.
C19_Witness ==
  /\ reader.status = "exited"
  /\ reader.first = DailyFiles[2]
  /\ reader.last = DailyFiles[4]
  /\ Len(reader.opened) = 8
  /\ reader.opened[8] = <<3, DailyFiles[3]>>
  /\ reader.opened[8] \notin reader.disk
  /\ Len(reader.file_contents[3]) = 1
  /\ phase = "constructed"

\* C20: a call of an accessor (validity, position, clock, pseudorange,
\* carrier phase, ionospheric delay, log header and value, index and
\* identifier conversion) leaves the engine unchanged, and the value a call
\* returned is the value the same call returns after any number of calls
\* made since, until the next Update.
C20_PureAccessors ==
  [][/\ (observed' # NoCall /\ observed' # observed) =>
          UNCHANGED <<is_calc_enabled_, true_info_, estimate_info_, start_unix_time_, phase, now>>
     /\ observed' # NoCall => (observed.result = QueryResult(observed.call))'
    ]_vars

\* C20 witness: the pseudorange of a valid satellite has been read, with a
\* result that is not the degenerate one, on an engine that has been updated
\* since SetUp.
C20_Witness ==
  /\ observed # NoCall
  /\ observed.op = "GetPseudoRangeECEF"
  /\ observed.call.id = 0
  /\ Returns(GetWhetherValid(0), TRUE)
  /\ observed.result.exc = "none"
  /\ observed.result.val # Zero
  /\ now > start_unix_time_

\* C21: when the calculation-enabled flag is false, every accessor
\* (validity, position, clock, pseudorange, carrier phase) called with any
\* identifier returns invalid / zero without raising.
C21_DisabledQuiet ==
  ~is_calc_enabled_ =>
    \A id \in ObservableIds \cup {-1} :
      /\ Returns(GetWhetherValid(id), FALSE)
      /\ Returns(GetSatellitePositionEcef(id), ZeroVector)
      /\ Returns(GetSatellitePositionEci(id), ZeroVector)
      /\ Returns(GetSatelliteClock(id), Zero)
      /\ \A r \in RecPositions : \A c \in RecClocks : \A f \in Frequencies :
           /\ Returns(GetPseudoRangeECEF(id, r, c, f), Zero)
           /\ Returns(GetPseudoRangeECI(id, r, c, f), Zero)
           /\ Returns(GetCarrierPhaseECEF(id, r, c, f), <<Zero, Zero>>)
           /\ Returns(GetCarrierPhaseECI(id, r, c, f), <<Zero, Zero>>)

\* C22: for a satellite whose facade validity is true in two engine states
\* that agree on the true track and differ in the estimate track, the
\* pseudorange, the carrier phase and the ionospheric delay are the same in
\* both for the same receiver inputs.
C22_TrueTrackOnly ==
  [][(true_info_' = true_info_ /\ estimate_info_' # estimate_info_) =>
       \A id \in Sats :
         (Returns(GetWhetherValid(id), TRUE) /\ Returns(GetWhetherValid(id), TRUE)') =>
           \A r \in RecPositions : \A c \in RecClocks : \A f \in Frequencies :
             /\ GetPseudoRangeECEF(id, r, c, f)' = GetPseudoRangeECEF(id, r, c, f)
             /\ GetPseudoRangeECI(id, r, c, f)' = GetPseudoRangeECI(id, r, c, f)
             /\ GetCarrierPhaseECEF(id, r, c, f)' = GetCarrierPhaseECEF(id, r, c, f)
             /\ GetCarrierPhaseECI(id, r, c, f)' = GetCarrierPhaseECI(id, r, c, f)
             /\ \A flag \in {kEcef, kEci} :
                  AddIonosphericDelay(id, r, f, flag)' = AddIonosphericDelay(id, r, f, flag)
    ]_vars

\* C22 witness: G01 is valid on the facade of both engines, whose estimate
\* tracks hold different positions and clocks for it, different from the
\* true track's.
C22_Witness ==
  /\ observed.op = "twin"
  /\ phase = "running"
  /\ Returns(GetWhetherValid(0), TRUE)
  /\ TrackValid(observed.estimate_info_, 0)
  /\ observed.estimate_info_.position_.sat_[0].position_ecef_m_
       # estimate_info_.position_.sat_[0].position_ecef_m_
  /\ observed.estimate_info_.clock_.sat_[0].clock_offset_m_
       # estimate_info_.clock_.sat_[0].clock_offset_m_
  /\ true_info_.position_.sat_[0].position_ecef_m_
       # estimate_info_.position_.sat_[0].position_ecef_m_

\* Receiver positions on the axes at altitudes below, at and above 1000 km,
\* and frequencies with their doubles.
IonosphereAltitudes == {0, 400000, 999999, 1000000, 1000001, 2000000}
IonospherePositions ==
  UNION {{<<earth_equatorial_radius_m + a, 0, 0>>, <<0, -(earth_equatorial_radius_m + a), 0>>,
          <<0, 0, earth_equatorial_radius_m + a>>} : a \in IonosphereAltitudes}
IonosphereFrequencies == {1000, 1200, 1500, 1575}

MantissaBits == 4
GridBits == MantissaBits + 2

\* 1.0
OneCycle == 2 ^ GridBits

\* The unit in the last place of the doubles of the size of n.
RECURSIVE UlpFrom(_, _)
UlpFrom(n, u) == IF Abs(n) < (2 ^ MantissaBits) * u THEN u ELSE UlpFrom(n, 2 * u)

Ulp(n) == UlpFrom(n, 1)

\* Round to nearest, ties to even: the result of one arithmetic operation.
RoundMagnitude(a, u) ==
  IF 2 * (a % u) < u THEN a - (a % u)
  ELSE IF 2 * (a % u) > u THEN a - (a % u) + u
  ELSE IF (a \div u) % 2 = 0 THEN a - (a % u) ELSE a - (a % u) + u

RoundToNearest(n) ==
  IF n < 0 THEN -RoundMagnitude(-n, Ulp(n)) ELSE RoundMagnitude(n, Ulp(n))

\* The doubles between -4.0 and 4.0: the values cycle = res / lambda can take.
Doubles == {n \in (-4 * OneCycle)..(4 * OneCycle) : RoundToNearest(n) = n}

\* std::floor: exact.
floor(cycle) == (cycle \div OneCycle) * OneCycle

\* bias = floor(cycle); cycle -= bias; return {cycle, bias};
SplitCycle(cycle) == <<RoundToNearest(cycle - floor(cycle)), floor(cycle)>>

\* The engine is not involved: the accessor is const and past its guard
\* the pair depends on cycle alone.
InitCycle ==
  /\ is_calc_enabled_ = TRUE
  /\ true_info_ = InformationNew
  /\ estimate_info_ = InformationNew
  /\ start_unix_time_ = 0
  /\ phase = "constructed"
  /\ now = 0
  /\ converted = [op |-> "none"]
  /\ ingest = NoIngest
  /\ reader = NoReader
  /\ \E cycle \in Doubles : observed = [op |-> "cycle", cycle |-> cycle]

GetCarrierPhase ==
  /\ observed.op = "cycle"
  /\ observed' = [op |-> "carrier_phase", cycle |-> observed.cycle,
                  result |-> SplitCycle(observed.cycle)]
  /\ UNCHANGED <<is_calc_enabled_, true_info_, estimate_info_, start_unix_time_, phase, now,
                 converted, ingest, reader>>

NextCycle == GetCarrierPhase

SpecCycle == InitCycle /\ [][NextCycle]_vars

\* C24: the pair (fractional, ambiguity) returned for a total cycle count
\* has ambiguity = floor(total), that is ambiguity a whole number with
\* ambiguity <= total < ambiguity + 1, has 0 <= fractional < 1, and has
\* fractional + ambiguity = total, for negative totals too.
C24_FloorSplit ==
  observed.op = "carrier_phase" =>
    /\ observed.result[2] % OneCycle = 0
    /\ observed.result[2] <= observed.cycle
    /\ observed.cycle < observed.result[2] + OneCycle
    /\ 0 <= observed.result[1]
    /\ observed.result[1] < OneCycle
    /\ observed.result[1] + observed.result[2] = observed.cycle

(***************************************************************************)
(* ReadSp3Files / ReadClockFiles: the names of the files.  A file name is  *)
(* a sequence of characters: a header without digits, the GPS week in four *)
(* digits, the day of the week, for ultra-rapid products "_" and the hour  *)
(* in two digits, and a footer.  reader holds the arguments, the locals of *)
(* the function and the names of the files read, one page each.            *)
(***************************************************************************)
NameHeader == <<"i", "g", "s">>
NameFooter == <<".", "s", "p", "3">>

\* Four digits of a week, two digits of an hour.
Pad(n, width) ==
  [k \in 1..(width - Len(NatToString(n))) |-> "0"] \o NatToString(n)

\* The name of the file of a week, a day of the week and an hour of the day.
ProductFileName(ultra, gps_week, day, hour) ==
  NameHeader \o Pad(gps_week, 4) \o NatToString(day)
             \o (IF ultra THEN <<"_">> \o Pad(hour, 2) ELSE <<>>) \o NameFooter

\* The weeks of the products of the directory.
FirstWeeks == {999, 2238}

\* The files of the directory in chronological order: two weeks from each
\* of FirstWeeks, daily or every six hours.
Chronological(ultra, gps_week) ==
  IF ultra
    THEN [k \in 1..56 |-> ProductFileName(TRUE, gps_week + ((k - 1) \div 28),
                                          ((k - 1) \div 4) % 7, 6 * ((k - 1) % 4))]
    ELSE [k \in 1..14 |-> ProductFileName(FALSE, gps_week + ((k - 1) \div 7), (k - 1) % 7, 0)]

Directory(ultra) ==
  UNION {{Chronological(ultra, w)[k] : k \in DOMAIN Chronological(ultra, w)} : w \in FirstWeeks}

\* "for (int i = 0; i < (int)first.size(); ++i) ... if ((int)'0' <= n && n < (int)('0' + 10))":
\* the zero-based index of the first digit of the name.
RECURSIVE FirstDigit(_, _)
FirstDigit(name, i) ==
  IF i >= Len(name) \/ IsDigit(name[i + 1]) THEN i ELSE FirstDigit(name, i + 1)

\* The locals of the function after the loop over the characters of first.
ParsedName(ultra, first) ==
  [file_header |-> SubSeq(first, 1, FirstDigit(first, 0)),
   gps_week |-> stoi(SubSeq(first, FirstDigit(first, 0) + 1, FirstDigit(first, 0) + 4)),
   day |-> stoi(SubSeq(first, FirstDigit(first, 0) + 5, FirstDigit(first, 0) + 5)),
   hour |-> IF ultra THEN stoi(SubSeq(first, FirstDigit(first, 0) + 7, FirstDigit(first, 0) + 8)) ELSE 0,
   file_footer |-> substr(first, FirstDigit(first, 0) + (IF ultra THEN 8 ELSE 5))]

\* "if (hour == 24) { hour = 0; ++day; }  if (day == 7) { ++gps_week; day = 0; }"
RolledOver(gps_week, day, hour) ==
  [gps_week |-> IF (IF hour = 24 THEN day + 1 ELSE day) = 7 THEN gps_week + 1 ELSE gps_week,
   day |-> IF (IF hour = 24 THEN day + 1 ELSE day) = 7 THEN 0 ELSE (IF hour = 24 THEN day + 1 ELSE day),
   hour |-> IF hour = 24 THEN 0 ELSE hour]

\* file_header + std::to_string(gps_week) + std::to_string(day) [+ "_" + ("0") + std::to_string(hour)] + file_footer
BuiltName(ultra, file_header, c, file_footer) ==
  file_header \o to_string(c.gps_week) \o to_string(c.day)
    \o (IF ultra THEN <<"_">> \o (IF c.hour < 10 THEN <<"0">> ELSE <<>>) \o to_string(c.hour) ELSE <<>>)
    \o file_footer

\* The function is called with the first and the last name of a run of
\* files of the directory.
InitNames ==
  /\ is_calc_enabled_ = TRUE
  /\ true_info_ = InformationNew
  /\ estimate_info_ = InformationNew
  /\ start_unix_time_ = 0
  /\ phase = "constructed"
  /\ now = 0
  /\ converted = [op |-> "none"]
  /\ ingest = NoIngest
  /\ observed = NoCall
  /\ \E ultra \in BOOLEAN, w \in FirstWeeks :
       \E i \in 1..Len(Chronological(ultra, w)) :
         \E j \in i..Len(Chronological(ultra, w)) :
           /\ j - i < 10
           /\ reader = [status |-> "called", ultra |-> ultra,
                        first |-> Chronological(ultra, w)[i], last |-> Chronological(ultra, w)[j],
                        file_header |-> <<>>, file_footer |-> <<>>,
                        gps_week |-> 0, day |-> 0, hour |-> 0,
                        named |-> <<>>, file_contents |-> <<>>]

\* The function up to "file_contents.clear();".
ParseFirstName ==
  /\ reader.status = "called"
  /\ \E l \in {ParsedName(reader.ultra, reader.first)} :
       reader' = [reader EXCEPT !.status = "reading", !.file_header = l.file_header,
                                !.file_footer = l.file_footer, !.gps_week = l.gps_week,
                                !.day = l.day, !.hour = l.hour]
  /\ UNCHANGED <<is_calc_enabled_, true_info_, estimate_info_, start_unix_time_, phase, now,
                 converted, ingest, observed>>

\* One turn of "while (true)": the counters roll over, the name is built,
\* the file is read into a new page (exit(1) when it cannot be opened) and
\* the loop ends on the last name or the counter is stepped.
ReadNamedFile ==
  /\ reader.status = "reading"
  /\ \E c \in {RolledOver(reader.gps_week, reader.day, reader.hour)} :
       \E file_name \in {BuiltName(reader.ultra, reader.file_header, c, reader.file_footer)} :
         reader' =
           IF file_name \notin Directory(reader.ultra)
             THEN [reader EXCEPT !.status = "exited", !.gps_week = c.gps_week, !.day = c.day,
                                 !.hour = c.hour, !.named = Append(@, c)]
           ELSE IF file_name = reader.last
             THEN [reader EXCEPT !.status = "read", !.gps_week = c.gps_week, !.day = c.day,
                                 !.hour = c.hour, !.named = Append(@, c),
                                 !.file_contents = Append(@, file_name)]
           ELSE [reader EXCEPT !.gps_week = c.gps_week,
                               !.day = IF reader.ultra THEN c.day ELSE c.day + 1,
                               !.hour = IF reader.ultra THEN c.hour + 6 ELSE c.hour,
                               !.named = Append(@, c),
                               !.file_contents = Append(@, file_name)]
  /\ UNCHANGED <<is_calc_enabled_, true_info_, estimate_info_, start_unix_time_, phase, now,
                 converted, ingest, observed>>

NextNames == ParseFirstName \/ ReadNamedFile

SpecNames == InitNames /\ [][NextNames]_vars

\* The position of a name in the chronological order of its directory.
Position(ultra, name) ==
  CHOOSE k \in 1..Len(Chronological(ultra, 999)) :
    \E w \in FirstWeeks : Chronological(ultra, w)[k] = name

\* The run of files from first to last.
RunOfFiles(ultra, first, last) ==
  LET w == CHOOSE w \in FirstWeeks : \E k \in DOMAIN Chronological(ultra, w) : Chronological(ultra, w)[k] = first
  IN SubSeq(Chronological(ultra, w), Position(ultra, first), Position(ultra, last))

\* C25: the files read are the run of files from first to last of the
\* directory in chronological order, each once and as one page in order;
\* the function ends after last and never on a file it cannot open; the
\* day used in a file name is in 0..6, a day after 6 is day 0 of the next
\* week, the hour used in an ultra-rapid name is 0, 6, 12 or 18 and an hour
\* after 18 is hour 0 of the next day.
C25_Enumeration ==
  reader.status \in {"reading", "read", "exited"} =>
    /\ reader.status # "exited"
    /\ Len(reader.file_contents) <= Len(RunOfFiles(reader.ultra, reader.first, reader.last))
    /\ \A k \in DOMAIN reader.file_contents :
         reader.file_contents[k] = RunOfFiles(reader.ultra, reader.first, reader.last)[k]
    /\ reader.status = "read" =>
         reader.file_contents = RunOfFiles(reader.ultra, reader.first, reader.last)
    /\ \A k \in DOMAIN reader.named :
         /\ reader.named[k].day \in 0..6
         /\ reader.named[k].hour \in {0, 6, 12, 18}
         /\ k > 1 =>
              \/ /\ reader.named[k].hour = reader.named[k - 1].hour + 6
                 /\ reader.named[k].day = reader.named[k - 1].day
                 /\ reader.named[k].gps_week = reader.named[k - 1].gps_week
              \/ /\ reader.named[k].hour = 0
                 /\ reader.named[k - 1].hour = IF reader.ultra THEN 18 ELSE 0
                 /\ reader.named[k].day = reader.named[k - 1].day + 1
                 /\ reader.named[k].gps_week = reader.named[k - 1].gps_week
              \/ /\ reader.named[k].hour = 0
                 /\ reader.named[k - 1].hour = IF reader.ultra THEN 18 ELSE 0
                 /\ reader.named[k].day = 0 /\ reader.named[k - 1].day = 6
                 /\ reader.named[k].gps_week = reader.named[k - 1].gps_week + 1

\* The four trackers of the engine: the series of timestamps of a
\* satellite, the window size and the satellite's element of sat_.
TrackerNames == {"true_position", "true_clock", "estimate_position", "estimate_clock"}

TrackerOf(true_info, estimate_info, tracker) ==
  CASE tracker = "true_position" -> true_info.position_
    [] tracker = "true_clock" -> true_info.clock_
    [] tracker = "estimate_position" -> estimate_info.position_
    [] tracker = "estimate_clock" -> estimate_info.clock_

\* The zero-based index of the first sample at or after time; the length
\* of the series when there is none.
FirstAtOrAfter(times, time) ==
  IF \E i \in DOMAIN times : times[i] >= time
    THEN (CHOOSE i \in DOMAIN times : times[i] >= time /\ \A j \in 1..(i - 1) : times[j] < time) - 1
    ELSE Len(times)

\* The index C26 describes.
NearestOfTwo(times, interpolation_number, time) ==
  LET first == FirstAtOrAfter(times, time)
  IN IF interpolation_number % 2 = 1 /\ first > 0
          /\ time - times[first] < times[first + 1] - time
       THEN first - 1
       ELSE first

\* C26: SetUp(start_time) sets nearest_index_ of every satellite that has a
\* sample at or after start_time, in each of the four trackers, to the
\* first sample at or after start_time, or, when the window size is odd and
\* the sample before it is strictly closer to start_time, to that sample.
C26_SetUpNearest ==
  [][phase = "initialized" /\ phase' = "running" =>
       \A tracker \in TrackerNames : \A id \in Sats :
         LET before == TrackerOf(true_info_, estimate_info_, tracker)
             after == TrackerOf(true_info_', estimate_info_', tracker)
             times == before.unix_time_list[id]
         IN FirstAtOrAfter(times, now') < Len(times) =>
              after.sat_[id].nearest_index_
                = NearestOfTwo(times, before.interpolation_number_, now')]_vars

\* C26 witness: SetUp was called half way between the samples 3 and 4; the
\* odd window of the true position is centred on sample 4 (the tie) and
\* the even window of the true clock on sample 4 as well.
C26_Witness ==
  /\ phase = "running"
  /\ now = start_unix_time_
  /\ now = 3 * SampleInterval + (SampleInterval \div 2)
  /\ true_info_.position_.interpolation_number_ = 3
  /\ true_info_.position_.sat_[0].nearest_index_ = 4
  /\ true_info_.clock_.interpolation_number_ = 2
  /\ true_info_.clock_.sat_[0].nearest_index_ = 4

\* The samples of series at the zero-based indices from
\* index - floor(N / 2) to index + ceil(N / 2) - 1 that the series has.
ClippedSlice(series, index, interpolation_number) ==
  LET low == IF index - (interpolation_number \div 2) < 0 THEN 0
             ELSE index - (interpolation_number \div 2)
      high == IF index + ((interpolation_number + 1) \div 2) - 1 >= Len(series)
                THEN Len(series) - 1
                ELSE index + ((interpolation_number + 1) \div 2) - 1
  IN [k \in 1..(high - low + 1) |-> series[low + k]]

\* C27: after SetUp and after every Update, for every satellite with a
\* non-empty series and nearest_index_ smaller than the length of the
\* series, in the position and the clock tracker of both tracks, the window
\* stored is the slice of the series around nearest_index_ clipped to the
\* series: its timestamps and its values.
C27_WindowIsSlice ==
  phase = "running" =>
    \A info \in Tracks : \A id \in Sats :
      /\ LET p == info.position_
             w == p.sat_[id]
         IN (p.unix_time_list[id] # <<>> /\ w.nearest_index_ < Len(p.unix_time_list[id])) =>
              /\ w.time_period_list_
                   = ClippedSlice(p.unix_time_list[id], w.nearest_index_, p.interpolation_number_)
              /\ w.ecef_ = ClippedSlice(p.time_series_position_ecef_m_[id], w.nearest_index_,
                                        p.interpolation_number_)
              /\ w.eci_ = ClippedSlice(p.time_series_position_eci_m_[id], w.nearest_index_,
                                       p.interpolation_number_)
      /\ LET c == info.clock_
             w == c.sat_[id]
         IN (c.unix_time_list[id] # <<>> /\ w.nearest_index_ < Len(c.unix_time_list[id])) =>
              /\ w.time_period_list_
                   = ClippedSlice(c.unix_time_list[id], w.nearest_index_, c.interpolation_number_)
              /\ w.clock_bias_ = ClippedSlice(c.time_series_clock_offset_m_[id], w.nearest_index_,
                                              c.interpolation_number_)

\* The window of a satellite's element of sat_: the timestamps and the
\* values, whatever the tracker.
StoredWindow(tracker, w) ==
  IF tracker \in {"true_position", "estimate_position"}
    THEN <<w.time_period_list_, w.ecef_, w.eci_>>
    ELSE <<w.time_period_list_, w.clock_bias_>>

SlicedWindow(tracker, self, id, index) ==
  IF tracker \in {"true_position", "estimate_position"}
    THEN <<ClippedSlice(self.unix_time_list[id], index, self.interpolation_number_),
           ClippedSlice(self.time_series_position_ecef_m_[id], index, self.interpolation_number_),
           ClippedSlice(self.time_series_position_eci_m_[id], index, self.interpolation_number_)>>
    ELSE <<ClippedSlice(self.unix_time_list[id], index, self.interpolation_number_),
           ClippedSlice(self.time_series_clock_offset_m_[id], index, self.interpolation_number_)>>

\* A sample exists after index and it is strictly closer to time than the
\* sample at index.
NextIsCloser(times, index, time) ==
  /\ index + 1 < Len(times)
  /\ \/ /\ time >= times[index + 2] /\ time >= times[index + 1]
        /\ time - times[index + 2] < time - times[index + 1]
     \/ /\ time >= times[index + 2] /\ time < times[index + 1]
        /\ time - times[index + 2] < times[index + 1] - time
     \/ /\ time < times[index + 2] /\ time >= times[index + 1]
        /\ times[index + 2] - time < time - times[index + 1]
     \/ /\ time < times[index + 2] /\ time < times[index + 1]
        /\ times[index + 2] - time < times[index + 1] - time

\* C28: Update(t) advances nearest_index_ by one and rebuilds the window
\* around the new index when a sample exists after nearest_index_ and it
\* is strictly closer to t than the sample at nearest_index_; else (on an
\* exact tie, at the last sample, past the series) it leaves nearest_index_
\* and the window as they were.  For every satellite of the four trackers.
C28_UpdateAdvance ==
  [][phase = "running" =>
       \A tracker \in TrackerNames : \A id \in Sats :
         LET before == TrackerOf(true_info_, estimate_info_, tracker)
             after == TrackerOf(true_info_', estimate_info_', tracker)
             times == before.unix_time_list[id]
             index == before.sat_[id].nearest_index_
         IN IF NextIsCloser(times, index, now')
              THEN /\ after.sat_[id].nearest_index_ = index + 1
                   /\ StoredWindow(tracker, after.sat_[id])
                        = SlicedWindow(tracker, before, id, index + 1)
              ELSE /\ after.sat_[id].nearest_index_ = index
                   /\ StoredWindow(tracker, after.sat_[id])
                        = StoredWindow(tracker, before.sat_[id])]_vars

\* C28 witness: SetUp at the sample at 300 s and Update one interval later
\* moved the true position of G01 from sample 1 to sample 2 and rebuilt its
\* window of three samples around it.
C28_Witness ==
  /\ phase = "running"
  /\ start_unix_time_ = SampleInterval
  /\ true_info_.position_.interpolation_number_ = 3
  /\ now = 2 * SampleInterval
  /\ true_info_.position_.sat_[0].nearest_index_ = 2
  /\ true_info_.position_.sat_[0].time_period_list_
       = <<SampleInterval, 2 * SampleInterval, 3 * SampleInterval>>

\* The span of a window and the distance of time to the sample at index.
WindowSpan(time_period_list) == time_period_list[Len(time_period_list)] - time_period_list[1]

Distance(time, times, index) ==
  IF time >= times[index + 1] THEN time - times[index + 1] ELSE times[index + 1] - time

\* The validity of a tracker's satellites at time, read off the window
\* stored and the sample at nearest_index_: the window holds N samples,
\* spans at most (N - 1 + slack) intervals and time is at most one interval
\* away from the sample at nearest_index_ => valid; a window that spans
\* more than (N - 1 + slack) intervals => not valid.
ValidityFollowsWindow(self, slack, time) ==
  \A id \in Sats :
    (self.unix_time_list[id] # <<>> /\ self.sat_[id].nearest_index_ < Len(self.unix_time_list[id])) =>
      /\ ( /\ Len(self.sat_[id].time_period_list_) = self.interpolation_number_
           /\ WindowSpan(self.sat_[id].time_period_list_)
                <= (self.interpolation_number_ - 1 + slack) * self.time_interval_
           /\ Distance(time, self.unix_time_list[id], self.sat_[id].nearest_index_)
                <= self.time_interval_ )
           => self.sat_[id].validate_
      /\ ( /\ self.sat_[id].time_period_list_ # <<>>
           /\ WindowSpan(self.sat_[id].time_period_list_)
                > (self.interpolation_number_ - 1 + slack) * self.time_interval_ )
           => ~self.sat_[id].validate_

\* C29: after every Update(t) the validity of a satellite in the position
\* and in the clock tracker follows from the window stored and from t
\* alone, whatever it was before: valid when the window holds N samples,
\* its span is within (N - 1 + slack) intervals and t is at most one
\* interval away from the sample at nearest_index_, with slack 3 for the
\* position (up to 3 missing epochs in the window) and slack 0 for the
\* clock, where a window that spans a missing epoch is not valid.
C29_ValidityRecomputed ==
  [][phase = "running" =>
       (\A info \in Tracks :
          /\ ValidityFollowsWindow(info.position_, 3, now)
          /\ ValidityFollowsWindow(info.clock_, 0, now))']_vars

\* C29 witness: R02 of the true position, samples at 0 s, 1500 s and
\* 1800 s, is not valid after SetUp at 300 s nor after an Update before
\* 1650 s, and is valid after Update at 1800 s on the window of its last
\* two samples.
C29_Witness ==
  /\ phase = "running"
  /\ start_unix_time_ = SampleInterval
  /\ now = 6 * SampleInterval
  /\ true_info_.position_.interpolation_number_ = 2
  /\ true_info_.position_.unix_time_list[33] = <<0, 5 * SampleInterval, 6 * SampleInterval>>
  /\ true_info_.position_.sat_[33].validate_
  /\ true_info_.position_.sat_[33].time_period_list_ = <<5 * SampleInterval, 6 * SampleInterval>>

(***************************************************************************)
(* The scalar LagrangeInterpolation computed as its loops compute it, on   *)
(* exact fractions n / d with d > 0 in lowest terms.                       *)
(***************************************************************************)
Fraction(n, d) ==
  [n |-> (IF d < 0 THEN -n ELSE n) \div GCD(Abs(n), Abs(d)),
   d |-> Abs(d) \div GCD(Abs(n), Abs(d))]

Times(a, b) == Fraction(a.n * b.n, a.d * b.d)

Plus(a, b) == Fraction(a.n * b.d + b.n * a.d, a.d * b.d)

\* Mutant: the denominator is time_vector.at(j) - time_vector.at(i).
LagrangeFactor_mut(time_vector, i, j, time) ==
  Fraction(time - time_vector[j], time_vector[j] - time_vector[i])

\* (time - time_vector.at(j)) / (time_vector.at(i) - time_vector.at(j)),
\* i and j one-based
LagrangeFactor(time_vector, i, j, time) ==
  Fraction(time - time_vector[j], time_vector[i] - time_vector[j])

\* "double l_i = 1.0; for (j ...) { if (i == j) continue; l_i *= ...; }"
\* from the index j on.
RECURSIVE LagrangeWeight(_, _, _, _, _)
LagrangeWeight(time_vector, i, j, time, l_i) ==
  IF j > Len(time_vector) THEN l_i
  ELSE IF i = j THEN LagrangeWeight(time_vector, i, j + 1, time, l_i)
  ELSE LagrangeWeight(time_vector, i, j + 1, time,
                      Times(l_i, LagrangeFactor(time_vector, i, j, time)))

\* "double res = 0.0; for (i ...) { ...; res += values.at(i) * l_i; }"
\* from the index i on.
RECURSIVE LagrangeSum(_, _, _, _, _)
LagrangeSum(time_vector, values, time, i, res) ==
  IF i > Len(time_vector) THEN res
  ELSE LagrangeSum(time_vector, values, time, i + 1,
                   Plus(res, Times(Fraction(values[i], 1),
                                   LagrangeWeight(time_vector, i, 1, time, Fraction(1, 1)))))

\* The windows: up to MaxWindow strictly increasing timestamps in
\* 0..MaxTime with a value each.
MaxWindow == 3
MaxTime == 4
WindowValues == {-3, 0, 2}

WindowTimes ==
  {tv \in UNION {[1..n -> 0..MaxTime] : n \in 1..MaxWindow} :
     \A k \in 1..(Len(tv) - 1) : tv[k] < tv[k + 1]}

InitLagrange ==
  /\ is_calc_enabled_ = TRUE
  /\ true_info_ = InformationNew
  /\ estimate_info_ = InformationNew
  /\ start_unix_time_ = 0
  /\ phase = "constructed"
  /\ now = 0
  /\ converted = [op |-> "none"]
  /\ ingest = NoIngest
  /\ reader = NoReader
  /\ \E time_vector \in WindowTimes, time \in 0..MaxTime :
       \E values \in [1..Len(time_vector) -> WindowValues] :
         observed = [op |-> "window", time_vector |-> time_vector, values |-> values,
                     time |-> time]

\* The call LagrangeInterpolation(time_vector, values, time).
Interpolate ==
  /\ observed.op = "window"
  /\ observed' = [op |-> "lagrange", time_vector |-> observed.time_vector,
                  values |-> observed.values, time |-> observed.time,
                  result |-> LagrangeSum(observed.time_vector, observed.values,
                                         observed.time, 1, Fraction(0, 1))]
  /\ UNCHANGED <<is_calc_enabled_, true_info_, estimate_info_, start_unix_time_, phase, now,
                 converted, ingest, reader>>

NextLagrange == Interpolate

SpecLagrange == InitLagrange /\ [][NextLagrange]_vars

\* C30: for every window with strictly increasing timestamps and every k,
\* LagrangeInterpolation at the k-th timestamp of the window is the k-th
\* value of the window, the first and the last included.
C30_ExactAtSamples ==
  [][observed.op = "window" =>
       \A k \in DOMAIN observed.time_vector :
         observed.time = observed.time_vector[k] =>
           /\ observed'.result = Fraction(observed.values[k], 1)
           /\ LagrangeInterpolation(observed.time_vector, observed.values, observed.time)
                = Num(observed.values[k])]_vars

\* C30 witness: the interpolation at the last timestamp of a window of
\* three samples with values -3, 2, 2 was computed and is 2.
C30_Witness ==
  /\ observed.op = "lagrange"
  /\ observed.time_vector = <<0, 1, 3>>
  /\ observed.values = <<-3, 2, 2>>
  /\ observed.time = 3
  /\ observed.result = Fraction(2, 1)

(***************************************************************************)
(* ReadSp3Files, names that start with "COD": the year and the day of the  *)
(* year.  reader holds the arguments, the locals of the branch and the     *)
(* names of the files read.                                                *)
(***************************************************************************)
CodHeader == <<"C", "O", "D", "0", "M", "G", "X", "F", "I", "N", "_">>
CodFooter == <<"0", "0", "0", "0", "_", "0", "1", "D", "_", "0", "5", "M", "_", "O", "R", "B", ".", "S", "P", "3">>

\* Mutant: every fourth year has 366 days.
YearLastDay_mut(year) == 365 + (IF year % 4 = 0 THEN 1 ELSE 0)

\* 365 + (year % 4 == 0) - (year % 100 == 0) + (year % 400 == 0)
YearLastDay(year) ==
  365 + (IF year % 4 = 0 THEN 1 ELSE 0) - (IF year % 100 = 0 THEN 1 ELSE 0)
      + (IF year % 400 = 0 THEN 1 ELSE 0)

\* "if (day > year_last_day) { ++year; year_last_day = ...; day = 1; }"
CodRolledOver(year, year_last_day, day) ==
  IF day > year_last_day
    THEN [year |-> year + 1, year_last_day |-> YearLastDay(year + 1), day |-> 1]
    ELSE [year |-> year, year_last_day |-> year_last_day, day |-> day]

\* s_day
CodDay(day) ==
  IF day >= 100 THEN to_string(day)
  ELSE IF day >= 10 THEN <<"0">> \o to_string(day)
  ELSE <<"0", "0">> \o to_string(day)

\* file_header + std::to_string(year) + s_day + file_footer
CodName(year, day) == CodHeader \o to_string(year) \o CodDay(day) \o CodFooter

\* The years of the first names and the calendar: year y has 366 days
\* exactly when y is divisible by 4 and not by 100, or divisible by 400.
CodYears == {2000, 2023, 2024, 2100}

DaysOfYear(year) ==
  IF (year % 4 = 0 /\ year % 100 # 0) \/ year % 400 = 0 THEN 366 ELSE 365

\* The calendar day after a day of a year.
DayAfter(d) ==
  IF d.day = DaysOfYear(d.year) THEN [year |-> d.year + 1, day |-> 1]
  ELSE [year |-> d.year, day |-> d.day + 1]

RECURSIVE DaysFrom(_, _)
DaysFrom(d, count) == IF count = 0 THEN <<>> ELSE <<d>> \o DaysFrom(DayAfter(d), count - 1)

\* The longest run of files read.
MaxRun == 5

\* The files of the directory: the last days of the years and the first of
\* the years after them.
CodDirectory ==
  UNION {{CodName(y, d) : d \in 360..DaysOfYear(y)} : y \in CodYears}
    \cup {CodName(y + 1, d) : y \in CodYears, d \in 1..MaxRun}

InitCod ==
  /\ is_calc_enabled_ = TRUE
  /\ true_info_ = InformationNew
  /\ estimate_info_ = InformationNew
  /\ start_unix_time_ = 0
  /\ phase = "constructed"
  /\ now = 0
  /\ converted = [op |-> "none"]
  /\ ingest = NoIngest
  /\ observed = NoCall
  /\ \E y \in CodYears :
       \E d \in 362..DaysOfYear(y), run \in 1..MaxRun :
         reader = [status |-> "called",
                   first |-> CodName(y, d),
                   last |-> CodName(DaysFrom([year |-> y, day |-> d], run)[run].year,
                                    DaysFrom([year |-> y, day |-> d], run)[run].day),
                   run |-> DaysFrom([year |-> y, day |-> d], run),
                   year |-> 0, year_last_day |-> 0, day |-> 0,
                   named |-> <<>>, file_contents |-> <<>>]

\* The branch up to "file_contents.clear();".
CodParseFirstName ==
  /\ reader.status = "called"
  /\ SubSeq(reader.first, 1, 3) = <<"C", "O", "D">>
  /\ reader' = [reader EXCEPT
                  !.status = "reading",
                  !.year = stoi(SubSeq(reader.first, Len(CodHeader) + 1, Len(CodHeader) + 4)),
                  !.year_last_day =
                     YearLastDay(stoi(SubSeq(reader.first, Len(CodHeader) + 1, Len(CodHeader) + 4))),
                  !.day = stoi(SubSeq(reader.first, Len(CodHeader) + 5, Len(CodHeader) + 7))]
  /\ UNCHANGED <<is_calc_enabled_, true_info_, estimate_info_, start_unix_time_, phase, now,
                 converted, ingest, observed>>

\* One turn of "while (true)".
CodReadNamedFile ==
  /\ reader.status = "reading"
  /\ \E c \in {CodRolledOver(reader.year, reader.year_last_day, reader.day)} :
       \E file_name \in {CodName(c.year, c.day)} :
         reader' =
           IF file_name \notin CodDirectory
             THEN [reader EXCEPT !.status = "exited", !.year = c.year,
                                 !.year_last_day = c.year_last_day, !.day = c.day,
                                 !.named = Append(@, [year |-> c.year, day |-> c.day,
                                                      s_day |-> CodDay(c.day)])]
           ELSE [reader EXCEPT !.status = IF file_name = reader.last THEN "read" ELSE "reading",
                               !.year = c.year, !.year_last_day = c.year_last_day,
                               !.day = IF file_name = reader.last THEN c.day ELSE c.day + 1,
                               !.named = Append(@, [year |-> c.year, day |-> c.day,
                                                    s_day |-> CodDay(c.day)]),
                               !.file_contents = Append(@, file_name)]
  /\ UNCHANGED <<is_calc_enabled_, true_info_, estimate_info_, start_unix_time_, phase, now,
                 converted, ingest, observed>>

NextCod == CodParseFirstName \/ CodReadNamedFile

SpecCod == InitCod /\ [][NextCod]_vars

\* C31: the files named are those of consecutive calendar days from first
\* to last: the day of the year of every name is between 1 and the number
\* of days of its year, it is written in three digits, the name after the
\* last day of a year is day 001 of the next year, and the function ends
\* after last without a file it cannot open.
C31_DayOfYear ==
  reader.status \in {"reading", "read", "exited"} =>
    /\ reader.status # "exited"
    /\ Len(reader.named) <= Len(reader.run)
    /\ reader.status = "read" => Len(reader.named) = Len(reader.run)
    /\ \A k \in DOMAIN reader.named :
         /\ reader.named[k].year = reader.run[k].year
         /\ reader.named[k].day = reader.run[k].day
         /\ reader.named[k].day \in 1..DaysOfYear(reader.named[k].year)
         /\ Len(reader.named[k].s_day) = 3
         /\ stoi(reader.named[k].s_day) = reader.named[k].day
         /\ reader.file_contents[k]
              = CodHeader \o NatToString(reader.named[k].year) \o reader.named[k].s_day \o CodFooter
         /\ k > 1 =>
              \/ /\ reader.named[k].year = reader.named[k - 1].year
                 /\ reader.named[k].day = reader.named[k - 1].day + 1
              \/ /\ reader.named[k - 1].day = DaysOfYear(reader.named[k - 1].year)
                 /\ reader.named[k].year = reader.named[k - 1].year + 1
                 /\ reader.named[k].s_day = <<"0", "0", "1">>

\* C31 witness: the files after day 366 of 2024 and after day 365 of 2100
\* were read: day 001 of 2025, day 001 of 2101.
C31_Witness ==
  /\ reader.status = "read"
  /\ Len(reader.named) >= 2
  /\ \E k \in 2..Len(reader.named) :
       /\ reader.named[k].s_day = <<"0", "0", "1">>
       /\ \/ reader.named[k - 1] = [year |-> 2024, day |-> 366, s_day |-> <<"3", "6", "6">>]
          \/ reader.named[k - 1] = [year |-> 2100, day |-> 365, s_day |-> <<"3", "6", "5">>]

\* C32: Initialize of a clock tracker on a product of the prefix-tagged
\* format with a selector in kPredict1 .. kPredict4 ends the process: no
\* page is opened and no sample is stored, in the loop taken step by step
\* and in the function as a whole.
C32_PredictClockFatal ==
  (ingest.status # "none" /\ ingest.format = "clk30s"
     /\ kPredict1 <= ingest.ur_flag /\ ingest.ur_flag <= kPredict4) =>
    /\ ingest.status = "terminated"
    /\ ingest.st.exc = "exit"
    /\ ingest.page = 0
    /\ \A id \in Sats : ingest.st.unix_time_list[id] = <<>> /\ ingest.st.clock[id] = <<>>
    /\ \E r \in {GnssSatelliteClock_Initialize(ClockNew, ingest.file, ".clk30s", 2, ingest.ur_flag,
                                               ingest.unix_time_period, 0)} :
         /\ r.exc = "exit"
         /\ \A id \in Sats : r.self.unix_time_list[id] = <<>>
                               /\ r.self.time_series_clock_offset_m_[id] = <<>>

\* C32 witness: Initialize was called on the prefix-tagged product with the
\* selector kPredict4 and has ended.
C32_Witness ==
  /\ ingest.status = "terminated"
  /\ ingest.format = "clk30s"
  /\ ingest.ur_flag = kPredict4
  /\ ingest.file = Clk30sProduct

(***************************************************************************)
(* The engine stepped by at most one sampling interval per Update: the     *)
(* simulation time never decreases.                                        *)
(***************************************************************************)
SmallSteps == {SampleInterval \div 2, (SampleInterval \div 2) + 1, SampleInterval}

\* The time of the last Update: half an interval after the last epoch.
StepsEnd == (MaxEpochs - 1) * SampleInterval + (SampleInterval \div 2)

UpdateByStep(step) ==
  /\ now + step <= StepsEnd
  /\ Update(now + step - start_unix_time_)

NextSteps ==
  \/ \E c \in Configurations : Initialize(c)
  \/ \E unix_time \in StartTimes : SetUp(unix_time)
  \/ \E step \in SmallSteps : UpdateByStep(step)

SpecSteps == InitScenario /\ [][NextSteps]_vars

\* A series with a sample at every multiple of the nominal interval from
\* its first to its last timestamp.
Uniform(times, time_interval) ==
  /\ times # <<>>
  /\ \A k \in 1..(Len(times) - 1) : times[k + 1] - times[k] = time_interval

\* C33: after SetUp(t0) and Updates at non-decreasing times at most one
\* nominal interval apart, every satellite with a uniformly sampled series
\* has, in the position and in the clock tracker of both tracks, the
\* nearest_index_, window, validity and value that a fresh SetUp at the
\* time of the last Update gives.
C33_SlidingIsSearch ==
  phase = "running" =>
    \A info \in Tracks : \A id \in Sats :
      /\ Uniform(info.position_.unix_time_list[id], info.position_.time_interval_) =>
           info.position_.sat_[id] = PositionSetUpSat(info.position_, id, now)
      /\ Uniform(info.clock_.unix_time_list[id], info.clock_.time_interval_) =>
           info.clock_.sat_[id] = ClockSetUpSat(info.clock_, id, now)

\* The satellite of a tracker is valid on an odd window over a uniformly
\* sampled series.
ValidOnUniformOdd(self, id) ==
  /\ self.interpolation_number_ % 2 = 1
  /\ Uniform(self.unix_time_list[id], self.time_interval_)
  /\ self.sat_[id].validate_

\* No sample of the series is strictly closer to time than the one at index.
IsNearest(times, index, time) ==
  \A k \in DOMAIN times : Abs(time - times[k]) >= Abs(time - times[index + 1])

\* C34: for an odd interpolation number and a uniformly sampled series,
\* after SetUp(t0) and Updates at non-decreasing times at most one nominal
\* interval apart, every satellite left valid by the call has no stored
\* sample strictly closer to the query time than the one at nearest_index_.
C34_NearestKept ==
  phase = "running" =>
    \A tracker \in TrackerNames : \A id \in Sats :
      ValidOnUniformOdd(TrackerOf(true_info_, estimate_info_, tracker), id) =>
        IsNearest(TrackerOf(true_info_, estimate_info_, tracker).unix_time_list[id],
                  TrackerOf(true_info_, estimate_info_, tracker).sat_[id].nearest_index_, now)

\* An Update half an interval and one tick after a SetUp on the second
\* sample has moved the odd window of G01 to the third sample.
C34_Witness ==
  /\ phase = "running"
  /\ start_unix_time_ = SampleInterval
  /\ now = SampleInterval + (SampleInterval \div 2) + 1
  /\ ValidOnUniformOdd(true_info_.position_, 0)
  /\ true_info_.position_.sat_[0].nearest_index_ = 2

\* A series whose consecutive timestamps are at least the nominal interval
\* apart.
Separated(times, time_interval) ==
  \A k \in 1..(Len(times) - 1) : times[k + 1] - times[k] >= time_interval

\* time lies in the closed span of the window.
Brackets(time_period_list, time) ==
  /\ time_period_list # <<>>
  /\ time_period_list[1] <= time
  /\ time <= time_period_list[Len(time_period_list)]

\* C35: for every interpolation number of at least 2 and every series whose
\* consecutive timestamps are at least the nominal interval apart, a
\* satellite that is valid after SetUp(t) or Update(t) has t within the
\* closed time span of its stored window, in the position and the clock
\* tracker of both tracks.
C35_NoExtrapolation ==
  phase = "running" =>
    \A tracker \in TrackerNames : \A id \in Sats :
      (/\ TrackerOf(true_info_, estimate_info_, tracker).interpolation_number_ >= 2
       /\ Separated(TrackerOf(true_info_, estimate_info_, tracker).unix_time_list[id],
                    TrackerOf(true_info_, estimate_info_, tracker).time_interval_)
       /\ TrackerOf(true_info_, estimate_info_, tracker).sat_[id].validate_) =>
        Brackets(TrackerOf(true_info_, estimate_info_, tracker).sat_[id].time_period_list_, now)

\* C36: a satellite whose nearest_index_ is the length of its series (SetUp
\* found no sample at or after the start time) is not valid after any
\* Update and keeps that nearest_index_; a satellite with an empty series
\* is not valid after any Update.  For the four trackers.
C36_PastTheEnd ==
  [][phase = "running" =>
       \A tracker \in TrackerNames : \A id \in Sats :
         LET before == TrackerOf(true_info_, estimate_info_, tracker)
             after == TrackerOf(true_info_', estimate_info_', tracker)
             times == before.unix_time_list[id]
         IN /\ before.sat_[id].nearest_index_ = Len(times) =>
                 /\ ~after.sat_[id].validate_
                 /\ after.sat_[id].nearest_index_ = Len(times)
            /\ times = <<>> => ~after.sat_[id].validate_]_vars

\* C36 witness: SetUp one tick after the last sample of the short series of
\* J07 in the true product, then an Update one interval later; G01 of the
\* same tracker is followed, G02 has no sample.
C36_Witness ==
  /\ phase = "running"
  /\ start_unix_time_ = 2 * SampleInterval + 1
  /\ now = start_unix_time_ + SampleInterval
  /\ Len(true_info_.position_.unix_time_list[116]) = 2
  /\ true_info_.position_.sat_[116].nearest_index_ = 2
  /\ ~true_info_.position_.sat_[116].validate_
  /\ true_info_.position_.sat_[0].validate_
  /\ true_info_.position_.unix_time_list[1] = <<>>
  /\ ~true_info_.position_.sat_[1].validate_

\* The body of Update's loop of a tracker for one satellite.
UpdateSatOf(tracker, self, id, w, time) ==
  IF tracker \in {"true_position", "estimate_position"}
    THEN PositionUpdateSat(self, id, w, time)
    ELSE ClockUpdateSat(self, id, w, time)

\* The satellite's element after calls more Updates at the same time.
RECURSIVE Repeated(_, _, _, _, _, _)
Repeated(tracker, self, id, w, time, calls) ==
  IF calls = 0 THEN w
  ELSE Repeated(tracker, self, id, UpdateSatOf(tracker, self, id, w, time), time, calls - 1)

\* The query times of the repeated Updates.
QueryTimes == {start_unix_time_ + elapsed_sec : elapsed_sec \in ElapsedTimes}

\* After as many Updates at time as the series has samples, one more Update
\* changes nothing; from a sample at or before time the index stops on a
\* sample of minimal distance.
FixedPoint(tracker, self, id, time, fixed) ==
  /\ UpdateSatOf(tracker, self, id, fixed, time) = fixed
  /\ (/\ self.sat_[id].nearest_index_ < Len(self.unix_time_list[id])
      /\ time >= self.unix_time_list[id][self.sat_[id].nearest_index_ + 1]) =>
       IsNearest(self.unix_time_list[id], fixed.nearest_index_, time)

\* C37: from every state after SetUp, for every satellite of the four
\* trackers and every query time t, as many Update(t) calls as the series
\* has samples reach an element (nearest_index_, window, validity, value)
\* that one more Update(t) leaves unchanged; when t is at or after the
\* timestamp at the initial nearest_index_, the nearest_index_ reached is a
\* stored sample of minimal distance to t.
C37_RepeatedUpdate ==
  phase = "running" =>
    \A tracker \in TrackerNames : \A id \in Sats : \A time \in QueryTimes :
      FixedPoint(tracker, TrackerOf(true_info_, estimate_info_, tracker), id, time,
                 Repeated(tracker, TrackerOf(true_info_, estimate_info_, tracker), id,
                          TrackerOf(true_info_, estimate_info_, tracker).sat_[id], time,
                          Len(TrackerOf(true_info_, estimate_info_, tracker).unix_time_list[id])))

\* C37 witness: SetUp(0) and Updates repeated at five intervals have moved
\* G01 of the true position from sample 0 to sample 5, where it is valid
\* and where another Update changes nothing.
C37_Witness ==
  /\ phase = "running"
  /\ start_unix_time_ = 0
  /\ now = 5 * SampleInterval
  /\ true_info_.position_.interpolation_number_ = 3
  /\ true_info_.position_.sat_[0].nearest_index_ = 5
  /\ true_info_.position_.sat_[0].validate_
  /\ PositionUpdateSat(true_info_.position_, 0, true_info_.position_.sat_[0], now)
       = true_info_.position_.sat_[0]

(***************************************************************************)
(* InitGnssSatellites: the estimate track's segment selectors, from the    *)
(* settings to the call of Initialize.                                     *)
(***************************************************************************)
\* The enumerator after kPredict4.
kUnknown == 9

\* s.find(sub) != std::string::npos
Contains(s, sub) ==
  \E i \in 1..(Len(s) - Len(sub) + 1) : SubSeq(s, i, i + Len(sub) - 1) = sub

\* The ur_flag that ReadSp3Files leaves in its reference parameter.
ReadSp3Files_ur_flag(file_sort, first) ==
  IF SubSeq(first, 1, 3) = <<"C", "O", "D">> THEN kNotUse
  ELSE IF SubSeq(file_sort, 1, 3) = <<"I", "G", "U">>
            \/ Contains(file_sort, <<"U", "l", "t", "r", "a">>)
    THEN kUnknown
    ELSE kNotUse

\* The selector read from "estimate_ur_observe_or_predict".
ConfiguredSelector(ur_flag) ==
  IF Contains(ur_flag, <<"o", "b", "s", "e", "r", "v", "e">>)
    THEN kObserve1 + (DigitValue(ur_flag[Len(ur_flag)]) - 1)
    ELSE kPredict1 + (DigitValue(ur_flag[Len(ur_flag)]) - 1)

\* estimate_position_ur_flag after "// Estimated position".
EstimatePositionUrFlag(file_sort, first, observe_or_predict) ==
  IF ReadSp3Files_ur_flag(file_sort, first) # kNotUse
    THEN ConfiguredSelector(observe_or_predict)
    ELSE ReadSp3Files_ur_flag(file_sort, first)

\* estimate_clock_ur_flag after "// Estimated clock": the position's
\* selector, which ReadSp3Files then overwrites through its reference.
EstimateClockUrFlag(estimate_position_ur_flag, file_extension, file_sort, first) ==
  IF file_extension = ".sp3"
    THEN ReadSp3Files_ur_flag(file_sort, first)
    ELSE estimate_position_ur_flag

FileSorts == {<<"I", "G", "U">>, <<"I", "G", "R">>,
              <<"m", "a", "d", "o", "c", "a", "U", "l", "t", "r", "a">>}
FirstNames == {<<"i", "g", "u", "2", "2", "3", "8", "0", "_", "0", "0", ".", "s", "p", "3">>,
               CodHeader \o <<"2", "0", "2", "3", "0", "0", "1">> \o CodFooter}
Selectors ==
  {word \o <<digit>> : word \in {<<"o", "b", "s", "e", "r", "v", "e">>,
                                 <<"p", "r", "e", "d", "i", "c", "t">>},
                       digit \in {"1", "2", "4"}}

InitSettings ==
  /\ is_calc_enabled_ = TRUE
  /\ true_info_ = InformationNew
  /\ estimate_info_ = InformationNew
  /\ start_unix_time_ = 0
  /\ phase = "constructed"
  /\ now = 0
  /\ converted = [op |-> "none"]
  /\ ingest = NoIngest
  /\ observed = NoCall
  /\ \E position_sort \in FileSorts, position_first \in FirstNames, selector \in Selectors,
        extension \in {".sp3", ".clk30s"}, clock_sort \in FileSorts :
       reader = [status |-> "called",
                 estimate_position_file_sort |-> position_sort,
                 estimate_position_first |-> position_first,
                 estimate_ur_observe_or_predict |-> selector,
                 estimate_clock_file_extension |-> extension,
                 estimate_clock_file_sort |-> clock_sort,
                 estimate_clock_first |-> position_first,
                 estimate_position_ur_flag |-> kNotUse,
                 estimate_clock_ur_flag |-> kNotUse]

\* "// Estimated position"
ReadEstimatePosition ==
  /\ reader.status = "called"
  /\ reader' = [reader EXCEPT
                  !.status = "position_read",
                  !.estimate_position_ur_flag =
                     EstimatePositionUrFlag(reader.estimate_position_file_sort,
                                            reader.estimate_position_first,
                                            reader.estimate_ur_observe_or_predict)]
  /\ UNCHANGED <<is_calc_enabled_, true_info_, estimate_info_, start_unix_time_, phase, now,
                 converted, ingest, observed>>

\* "// Estimated clock"
ReadEstimateClock ==
  /\ reader.status = "position_read"
  /\ reader' = [reader EXCEPT
                  !.status = "clock_read",
                  !.estimate_clock_ur_flag =
                     EstimateClockUrFlag(reader.estimate_position_ur_flag,
                                         reader.estimate_clock_file_extension,
                                         reader.estimate_clock_file_sort,
                                         reader.estimate_clock_first)]
  /\ UNCHANGED <<is_calc_enabled_, true_info_, estimate_info_, start_unix_time_, phase, now,
                 converted, ingest, observed>>

\* "// Initialize GNSS satellites", the estimate track: a product of eight
\* epochs, and the records every 30 s for the prefix-tagged clock format.
InitializeEstimate ==
  /\ reader.status = "clock_read"
  /\ \E r \in {GnssSatelliteInformation_Initialize(
                 estimate_info_, SegmentedProduct, 3, reader.estimate_position_ur_flag,
                 IF reader.estimate_clock_file_extension = ".sp3"
                   THEN SegmentedProduct ELSE Clk30sProduct,
                 reader.estimate_clock_file_extension, 3, reader.estimate_clock_ur_flag, 0)} :
       /\ reader' = [reader EXCEPT !.status = IF r.exc = "none" THEN "initialized"
                                                                ELSE "terminated"]
       /\ estimate_info_' = r.self
  /\ UNCHANGED <<is_calc_enabled_, true_info_, start_unix_time_, phase, now,
                 converted, ingest, observed>>

NextSettings ==
  \/ ReadEstimatePosition
  \/ ReadEstimateClock
  \/ InitializeEstimate

SpecSettings == InitSettings /\ [][NextSettings]_vars

\* C38: when the estimate position product is ultra-rapid, the selector
\* given to the estimate clock's Initialize is the selector given to the
\* estimate position's Initialize, one of kObserve1 .. kPredict4 read from
\* the settings, for the .sp3 and for the prefix-tagged clock format.
C38_SameSelector ==
  (/\ reader.status \in {"clock_read", "initialized", "terminated"}
   /\ ReadSp3Files_ur_flag(reader.estimate_position_file_sort,
                           reader.estimate_position_first) # kNotUse) =>
    /\ reader.estimate_position_ur_flag
         = ConfiguredSelector(reader.estimate_ur_observe_or_predict)
    /\ reader.estimate_position_ur_flag \in UrFlags
    /\ reader.estimate_clock_ur_flag = reader.estimate_position_ur_flag

\* Every timestamp stored by the parser is in [first, last + 30 s).
StoredInPeriod(st, unix_time_period) ==
  \A id \in Sats : \A k \in DOMAIN st.unix_time_list[id] :
    /\ unix_time_period[1] <= st.unix_time_list[id][k]
    /\ st.unix_time_list[id][k] < unix_time_period[2] + 30 * OneSecond

\* The record l read in the parser state before leaves the state after:
\* skipped before the period, the page stopped at or after its end, stored
\* as the satellite's last sample otherwise.
RecordFiltered(before, after, l, unix_time_period) ==
  IF before.stop \/ l.t < unix_time_period[1]
    THEN /\ after.unix_time_list = before.unix_time_list
         /\ after.stop = before.stop
    ELSE IF l.t >= unix_time_period[2] + 30 * OneSecond
      THEN /\ after.unix_time_list = before.unix_time_list
           /\ after.stop
      ELSE /\ ~after.stop
           /\ after.unix_time_list[GetIndexFromId(l.id)] # <<>>
           /\ after.unix_time_list[GetIndexFromId(l.id)]
                [Len(after.unix_time_list[GetIndexFromId(l.id)])] = l.t

\* C39: while a prefix-tagged clock product is ingested with kNotUse and
\* the pair (first, last) of the position tracker, every stored sample has
\* a timestamp t with first <= t < last + 30 s after every line read; a
\* record before the period is skipped, the first record of a page at or
\* after last + 30 s ends the reading of the page, and every other record
\* is stored.
C39_ClockInPeriod ==
  [][(/\ ingest.status = "reading"
      /\ ingest.format = "clk30s"
      /\ ingest.ur_flag = kNotUse
      /\ ingest'.page = ingest.page
      /\ ingest'.i = ingest.i + 1) =>
       /\ StoredInPeriod(ingest'.st, ingest.unix_time_period)
       /\ ingest.file[ingest.page].lines[ingest.i + 1].mark = "AS" =>
            RecordFiltered(ingest.st, ingest'.st, ingest.file[ingest.page].lines[ingest.i + 1],
                           ingest.unix_time_period)]_vars

\* C39 witness: with the period of a position product of one epoch at 300 s
\* the records before 300 s were skipped, the three records at 300 s stored
\* and both pages stopped at 330 s.
C39_Witness ==
  /\ ingest.status = "done"
  /\ ingest.format = "clk30s"
  /\ ingest.ur_flag = kNotUse
  /\ ingest.file = Clk30sLong
  /\ ingest.unix_time_period = <<SampleInterval, SampleInterval>>
  /\ ingest.st.stop
  /\ \A i \in 1..Len(FileSats) :
       ingest.st.unix_time_list[GetIndexFromId(Tail(FileSats[i]))] = <<SampleInterval>>

=============================================================================
